---- MODULE Spec2Model ----
(***************************************************************************)
(* Model of cl/lib/es_signal_processor.py: the signal processor that keeps *)
(* the Elasticsearch index in step with the relational store.  A change    *)
(* event (save, delete, m2m_changed, save or delete of a reverse related   *)
(* record) runs one handler of ESSignalProcessor; the handler reads the    *)
(* index, never writes it, and hands every index mutation to the task      *)
(* queue.  A worker step takes one queued task and applies it.             *)
(***************************************************************************)
EXTENDS Integers, Sequences, FiniteSets, TLC

VARIABLES
    processor,  \* self: main_model, es_document, documents_model_mapping
    db,         \* the relational store: foreign keys and attribute values
    index,      \* the documents held by the index store
    queue,      \* the tasks waiting on the work queue
    ev,         \* the change event in hand, NoEvent between events
    enq,        \* the tasks its handler enqueued, in order
    lookups,    \* the index reads its handler performed, in order
    raised,     \* the exception its handler let escape, "" when none
    enabled,    \* whether Elasticsearch indexing is switched on
    receivers,  \* the receivers connected to the signals, in connection order
    setups,     \* the processors whose setup() has run, one per call
    invoked,    \* the signal sent last and the handlers it invoked
    content,    \* the fields of the main documents followed field by field
    executed,   \* the tasks the workers have run on them, in order
    gone,       \* the rows of the main model deleted while tasks are followed
    call,       \* the helper function called last and its arguments
    result      \* what that call returned

registry == <<receivers, setups, invoked>>

written == <<content, executed, gone>>

applied == <<call, result>>

vars == <<processor, db, index, queue, ev, enq, lookups, raised, enabled,
          registry, written, applied>>

(***************************************************************************)
(* Bounds of the model.                                                    *)
(***************************************************************************)
MaxPk == 2          \* primary keys are 1..MaxPk
MaxVal == 1         \* attribute values are 0..MaxVal
Workers == 2        \* worker processes that take tasks off the queue

Pks == 1..MaxPk
Values == 0..MaxVal

(***************************************************************************)
(* Python dicts keep insertion order: a dict is a sequence of <<key,       *)
(* value>> pairs with distinct keys.                                       *)
(***************************************************************************)
Keys(d) == [i \in 1..Len(d) |-> d[i][1]]

HasKey(d, k) == \E i \in 1..Len(d) : d[i][1] = k

Get(d, k) == d[CHOOSE i \in 1..Len(d) : d[i][1] = k][2]

\* Faulty variant: a key that is present keeps its value.
PutUnlessPresent(d, k, v) ==
    IF HasKey(d, k) THEN d ELSE Append(d, <<k, v>>)

Put(d, k, v) ==
    IF HasKey(d, k)
    THEN [i \in 1..Len(d) |-> IF d[i][1] = k THEN <<k, v>> ELSE d[i]]
    ELSE Append(d, <<k, v>>)

InSeq(x, s) == \E i \in 1..Len(s) : s[i] = x

RECURSIVE SortedSeq(_)
SortedSeq(S) ==
    IF S = {} THEN <<>>
    ELSE LET m == CHOOSE x \in S : \A y \in S : x <= y
         IN <<m>> \o SortedSeq(S \ {m})

(***************************************************************************)
(* The result of running a piece of handler code: the tasks it enqueued,   *)
(* the index reads it made, and the exception it raised ("" when none).    *)
(* Code after a raise does not run.                                        *)
(***************************************************************************)
Nothing == [tasks |-> <<>>, lookups |-> <<>>, raised |-> ""]

Then(r1, r2) ==
    IF r1.raised # "" THEN r1
    ELSE [tasks |-> r1.tasks \o r2.tasks,
          lookups |-> r1.lookups \o r2.lookups,
          raised |-> r2.raised]

Raise(exc) == [tasks |-> <<>>, lookups |-> <<>>, raised |-> exc]

Enqueue(t) == [tasks |-> <<t>>, lookups |-> <<>>, raised |-> ""]

(***************************************************************************)
(* Values carried by update tasks.                                         *)
(***************************************************************************)
NoValue == [kind |-> "none", f |-> "", v |-> 0]
AttrValue(field, v) == [kind |-> "attr", f |-> field, v |-> v]
DisplayValue(field, v) == [kind |-> "display", f |-> field, v |-> v]
PreparedValue(doc_field, pk) == [kind |-> "prepare", f |-> doc_field, v |-> pk]

(***************************************************************************)
(* Tasks.  doc, model and pk are the document class and the instance the   *)
(* task is given; id is the document a single-document task addresses;     *)
(* fields the dict (or list) of fields it carries; fmap the fields_map     *)
(* given to a bulk task; immutable whether the signature was built with    *)
(* .si() and takes no result; rest the steps chained after it; args the    *)
(* results it received from the step before it.                            *)
(***************************************************************************)
NoId == <<"", 0>>

Task(name, doc, model, pk, id, fields, fmap) ==
    [name |-> name, doc |-> doc, model |-> model, pk |-> pk, id |-> id,
     fields |-> fields, fmap |-> fmap, immutable |-> FALSE, rest |-> <<>>,
     args |-> <<>>]

ListOfFields(names) == [i \in 1..Len(names) |-> <<names[i], NoValue>>]

(***************************************************************************)
(* The models and documents the processor is wired to.  A lookup path is   *)
(* the sequence of its "__" separated segments.                            *)
(***************************************************************************)
\* The fields a tracker can follow, in tracker order: two plain columns, a
\* ForeignKey under its name and under its column name, and a property.
TrackedFields == <<"name", "status", "docket", "docket_id", "prop">>

SrcFields == {"name", "status"}

\* type(instance).__name__.lower()
LowerName(model) ==
    CASE model = "Audio" -> "audio"
      [] model = "Person" -> "person"
      [] model = "Position" -> "position"
      [] model = "Docket" -> "docket"
      [] model = "RECAPDocument" -> "recapdocument"
      [] model = "Education" -> "education"
      [] model = "ABARating" -> "abarating"
      [] model = "PoliticalAffiliation" -> "politicalaffiliation"
      [] model = "School" -> "school"
      [] model = "BankruptcyInformation" -> "bankruptcyinformation"
      [] model = "Audio_panel" -> "audio_panel"
      [] model = "Docket_panel" -> "docket_panel"
      [] OTHER -> "other"

\* f"get_{field}_display"
DisplayName(field) ==
    CASE field = "name" -> "get_name_display"
      [] field = "status" -> "get_status_display"
      [] OTHER -> "get__display"

\* field.startswith("get_") and field.endswith("_display")
IsDisplay(field) ==
    field \in {"get_name_display", "get_status_display", "get__display"}

\* the X of get_X_display
DisplayedField(field) ==
    CASE field = "get_name_display" -> "name"
      [] field = "get_status_display" -> "status"
      [] OTHER -> ""

\* The prepare_<field> methods of a document class.
PrepareMethods(es_document) ==
    CASE es_document = "AudioDocument" ->
            {"panel_ids", "file_size_mp3", "local_path", "text", "timestamp"}
      [] es_document = "ParentheticalGroupDocument" ->
            {"citation", "cites", "joined_by_ids", "lexisCite", "neutralCite",
             "panel_ids", "status"}
      [] es_document = "PersonDocument" -> {"school", "aba_rating"}
      [] es_document = "DocketDocument" -> {"chapter"}
      [] OTHER -> {}

\* The model an attribute of an instance leads to, "" when the instance
\* has no such attribute.
RelatedModel(model, field) ==
    CASE model \in {"Education", "ABARating", "PoliticalAffiliation"}
            /\ field = "person" -> "Person"
      [] model = "BankruptcyInformation" /\ field = "docket" -> "Docket"
      [] OTHER -> ""

\* The instance class an event of this sender delivers.
InstanceModel(sender) ==
    CASE sender = "Audio_panel" -> "Audio"
      [] sender = "Docket_panel" -> "Docket"
      [] OTHER -> sender

\* Lookup paths that lead from the main model to the rows that point at it
\* (reverse relations); the others follow a foreign key of the main model.
ReversePaths ==
    {<<"educations">>, <<"aba_ratings">>, <<"political_affiliations">>,
     <<"bankruptcy_information">>}

\* The foreign-key column of the store a lookup path reads.
PathSlot(query) ==
    IF query \in {<<"supervisor">>, <<"docket_entry", "docket">>,
                  <<"related_docket">>}
    THEN 2 ELSE 1

Entity(model, pk) == [model |-> model, pk |-> pk]

\* Model.objects.filter(**{query: instance}), in primary-key order.
Filter(model, query, instance) ==
    LET fk == db.fk[PathSlot(query)]
    IN IF query \in ReversePaths
       THEN IF fk[instance.pk] = 0 THEN <<>>
            ELSE <<Entity(model, fk[instance.pk])>>
       ELSE LET pks == SortedSeq({m \in Pks : fk[m] = instance.pk})
            IN [i \in 1..Len(pks) |-> Entity(model, pks[i])]

\* getattr(instance, field) for a related object
Related(instance, field) ==
    Entity(RelatedModel(instance.model, field), db.fk[1][instance.pk])

\* getattr(instance, field) for a plain attribute
Attribute(instance, field) == db.vals[instance.pk][field]

(***************************************************************************)
(* The processors that are constructed: (main_model, es_document,          *)
(* documents_model_mapping).  Each mapping section is a dict from sender   *)
(* to its entries; an entry is <<lookup path, fields_map>>.                *)
(***************************************************************************)
AudioProcessor ==
    [main_model |-> "Audio", es_document |-> "AudioDocument",
     save |-> << <<"Audio", <<>> >>,
                 <<"Docket", << << <<"docket">>,
                                   << <<"name", <<"caseName">> >>,
                                      <<"get_status_display", <<"source">> >> >> >> >> >> >>,
     delete |-> <<"Audio">>,
     m2m |-> << <<"Audio_panel", << << <<"audio">>,
                                       << <<"panel_ids", <<"panel_ids">> >> >> >> >> >>,
                <<"Docket_panel", << << <<"docket">>,
                                        << <<"panel_ids", <<"panel_ids">> >> >> >>,
                                     << <<"related_docket">>,
                                        << <<"text", <<"text">> >> >> >> >> >> >>,
     reverse |-> <<>>,
     reverse_delete |-> <<>>]

PersonProcessor ==
    [main_model |-> "Person", es_document |-> "PersonDocument",
     save |-> << <<"Person", <<>> >> >>,
     delete |-> <<"Person">>,
     m2m |-> <<>>,
     reverse |-> << <<"Education", << << <<"educations">>,
                                         << <<"all", <<"school">> >> >> >> >> >>,
                    <<"ABARating", << << <<"aba_ratings">>,
                                         << <<"all", <<"aba_rating">> >> >> >> >> >>,
                    <<"PoliticalAffiliation",
                      << << <<"political_affiliations">>,
                            << <<"all", <<"name">> >> >> >> >> >> >>,
     reverse_delete |-> << <<"Education", << << <<"person">>,
                                                << <<"all", <<"school">> >> >> >> >> >> >>]

PositionProcessor ==
    [main_model |-> "Position", es_document |-> "PositionDocument",
     save |-> << <<"Position", <<>> >>,
                 <<"Person", << << <<"person">>,
                                   << <<"name", <<"judge">> >>,
                                      <<"get_status_display", <<"gender">> >> >> >>,
                                << <<"supervisor">>,
                                   << <<"name", <<"supervisor">> >> >> >> >> >>,
                 <<"School", << << <<"educations", "school">>,
                                   << <<"name", <<"school">> >> >> >> >> >> >>,
     delete |-> <<"Position">>,
     m2m |-> <<>>,
     reverse |-> <<>>,
     reverse_delete |-> <<>>]

DocketProcessor ==
    [main_model |-> "Docket", es_document |-> "DocketDocument",
     save |-> << <<"Docket", <<>> >> >>,
     delete |-> <<"Docket">>,
     m2m |-> <<>>,
     reverse |-> << <<"BankruptcyInformation",
                      << << <<"bankruptcy_information">>,
                            << <<"all", <<"chapter">> >>,
                               <<"t1", <<"chapter", "status">> >> >> >> >> >> >>,
     reverse_delete |-> << <<"BankruptcyInformation",
                             << << <<"docket">>,
                                   << <<"all", <<"chapter", "status">> >> >> >> >> >> >>]

RECAPProcessor ==
    [main_model |-> "RECAPDocument", es_document |-> "ESRECAPDocument",
     save |-> << <<"RECAPDocument", <<>> >>,
                 <<"Docket", << << <<"docket">>,
                                   << <<"name", <<"caseName">> >> >> >>,
                                << <<"docket_entry", "docket">>,
                                   << <<"status", <<"docketNumber">> >> >> >> >> >>,
                 <<"Person", << << <<"assigned_to">>,
                                   << <<"name", <<"assignedTo">> >> >> >> >> >> >>,
     delete |-> <<"RECAPDocument">>,
     m2m |-> <<>>,
     reverse |-> <<>>,
     reverse_delete |-> <<>>]

Processors ==
    {AudioProcessor, PersonProcessor, PositionProcessor, DocketProcessor,
     RECAPProcessor}

(***************************************************************************)
(* The stores the model starts from.  fk[s][m] is the row that row m       *)
(* points at through foreign-key column s (0: none); vals[pk][f] is the    *)
(* value of attribute f of row pk; children_indexed tells whether the      *)
(* child documents of the processor's document class are in the index      *)
(* (child m belongs to the parent fk[1][m]).                               *)
(***************************************************************************)
Stores ==
    {[fk |-> <<[m \in Pks |-> 1], [m \in Pks |-> (m % MaxPk) + 1]>>,
      vals |-> [pk \in Pks |-> [f \in SrcFields |-> pk % (MaxVal + 1)]],
      children_indexed |-> TRUE],
     [fk |-> <<[m \in Pks |-> m], [m \in Pks |-> 0]>>,
      vals |-> [pk \in Pks |-> [f \in SrcFields |->
                    IF f = "name" THEN 0 ELSE pk % (MaxVal + 1)]],
      children_indexed |-> FALSE]}

(***************************************************************************)
(* updated_fields: the tracked fields whose current value differs from the *)
(* tracker's snapshot.  The tracker attribute read depends on the document *)
(* class; an instance without it has no tracked fields.                    *)
(***************************************************************************)
TrackerAttribute(es_document) ==
    CASE es_document = "AudioDocument" -> "es_oa_field_tracker"
      [] es_document = "ParentheticalGroupDocument" -> "es_pa_field_tracker"
      [] es_document \in {"ESRECAPDocument", "DocketDocument"} ->
            "es_rd_field_tracker"
      [] es_document = "PositionDocument" -> "es_p_field_tracker"
      [] OTHER -> ""

\* tracked_set.fields: the snapshot holds one value for each of them.
FieldsTrackedBy(instance) ==
    SelectSeq(TrackedFields, LAMBDA field : field \in DOMAIN instance.prev)

\* field_type.get_internal_type() == "ForeignKey"; a property has no field.
ForeignKeyFields == {"docket", "docket_id"}

\* field.endswith("_id")
EndsWithId(field) == field = "docket_id"

\* A column value (0 for the NULL of a ForeignKey column) and a related
\* object.
Column(v) == [kind |-> "column", v |-> v]
Object(pk) == [kind |-> "object", v |-> pk]

\* getattr(instance, field) for a tracked field.
GetTracked(instance, field) ==
    IF field \in SrcFields THEN Column(Attribute(instance, field))
    ELSE IF field = "docket"
    THEN IF db.fk[2][instance.pk] = 0 THEN Column(0)
         ELSE Object(db.fk[2][instance.pk])
    ELSE IF field = "docket_id" THEN Column(db.fk[2][instance.pk])
    ELSE Column(Attribute(instance, "status"))

Truthy(value) == value.kind = "object" \/ value.v # 0

\* The value compared with tracked_set.previous(field).
CurrentValue(instance, field) ==
    LET current_value == GetTracked(instance, field)
    IN IF field \in ForeignKeyFields /\ Truthy(current_value)
          /\ ~EndsWithId(field)
       THEN Column(current_value.v)
       ELSE current_value

\* Faulty variant: every tracked field is reported, whatever the snapshot holds.
updated_fields_without_comparison(instance, es_document) ==
    IF TrackerAttribute(es_document) = ""
       \/ TrackerAttribute(es_document) \notin instance.trackers
    THEN <<>>
    ELSE FieldsTrackedBy(instance)

\* Faulty variant: an instance without the tracker has all its fields
\* reported.
updated_fields_without_tracker_check(instance, es_document) ==
    IF TrackerAttribute(es_document) = ""
       \/ TrackerAttribute(es_document) \notin instance.trackers
    THEN FieldsTrackedBy(instance)
    ELSE SelectSeq(FieldsTrackedBy(instance),
                   LAMBDA field : CurrentValue(instance, field)
                                    # Column(instance.prev[field]))

\* Faulty variant: a related object is compared as it is.
updated_fields_comparing_objects(instance, es_document) ==
    IF TrackerAttribute(es_document) = ""
       \/ TrackerAttribute(es_document) \notin instance.trackers
    THEN <<>>
    ELSE SelectSeq(FieldsTrackedBy(instance),
                   LAMBDA field : GetTracked(instance, field)
                                    # Column(instance.prev[field]))

updated_fields(instance, es_document) ==
    IF TrackerAttribute(es_document) = ""
       \/ TrackerAttribute(es_document) \notin instance.trackers
    THEN <<>>
    ELSE SelectSeq(FieldsTrackedBy(instance),
                   LAMBDA field : CurrentValue(instance, field)
                                    # Column(instance.prev[field]))

\* Faulty variant: every key of fields_map is listed, changed or not.
get_fields_to_update_listing_all(changed_fields, fields_map) ==
    IF changed_fields = <<>> THEN <<>> ELSE Keys(fields_map)

RECURSIVE get_fields_to_update(_, _)
get_fields_to_update(changed_fields, fields_map) ==
    IF changed_fields = <<>> THEN <<>>
    ELSE LET field == Head(changed_fields)
         IN (IF HasKey(fields_map, field) THEN <<field>> ELSE <<>>)
            \o (IF HasKey(fields_map, DisplayName(field))
                THEN <<DisplayName(field)>> ELSE <<>>)
            \o get_fields_to_update(Tail(changed_fields), fields_map)

\* Faulty variant: the prepare method is looked for before the display
\* accessor.
FieldValuePrepareFirst(es_document, main_object, field, doc_field, instance) ==
    IF doc_field \in PrepareMethods(es_document)
    THEN PreparedValue(doc_field, main_object.pk)
    ELSE IF IsDisplay(field)
    THEN DisplayValue(DisplayedField(field),
                      Attribute(instance, DisplayedField(field)))
    ELSE AttrValue(field, Attribute(instance, field))

\* The value document_fields_to_update stores for one (field, doc_field).
FieldValue(es_document, main_object, field, doc_field, instance) ==
    IF IsDisplay(field)
    THEN DisplayValue(DisplayedField(field),
                      Attribute(instance, DisplayedField(field)))
    ELSE IF doc_field \in PrepareMethods(es_document)
    THEN PreparedValue(doc_field, main_object.pk)
    ELSE AttrValue(field, Attribute(instance, field))

RECURSIVE PutDocFields(_, _, _, _, _, _)
PutDocFields(acc, es_document, main_object, field, document_fields, instance) ==
    IF document_fields = <<>> THEN acc
    ELSE PutDocFields(
            Put(acc, Head(document_fields),
                FieldValue(es_document, main_object, field,
                           Head(document_fields), instance)),
            es_document, main_object, field, Tail(document_fields), instance)

RECURSIVE PutFields(_, _, _, _, _, _)
PutFields(acc, es_document, main_object, field_list, instance, fields_map) ==
    IF field_list = <<>> THEN acc
    ELSE PutFields(
            PutDocFields(acc, es_document, main_object, Head(field_list),
                         Get(fields_map, Head(field_list)), instance),
            es_document, main_object, Tail(field_list), instance, fields_map)

document_fields_to_update(es_document, main_object, field_list, instance, fields_map) ==
    PutFields(<<>>, es_document, main_object, field_list, instance, fields_map)

(***************************************************************************)
(* get_or_create_doc: a point lookup of the document of an instance; when  *)
(* it is absent and creation is not avoided, a creation task is enqueued.  *)
(***************************************************************************)
\* Faulty variant: the child document classes get no namespace.
DocIdWithoutNamespace(es_document, pk) == <<"", pk>>

DocId(es_document, pk) ==
    IF es_document = "PositionDocument" THEN <<"POSITION", pk>>
    ELSE IF es_document = "ESRECAPDocument" THEN <<"RECAP", pk>>
    ELSE <<"", pk>>

Doc(es_document, id) == [doc |-> es_document, id |-> id]

Read(op, es_document, id) == [op |-> op, doc |-> es_document, id |-> id]

save_document_in_es(instance, es_document) ==
    Task("save_document_in_es", es_document, instance.model, instance.pk,
         NoId, <<>>, <<>>)

update_document_in_es(es_document, doc_id, fields) ==
    Task("update_document_in_es", es_document, "", 0, doc_id, fields, <<>>)

update_child_documents_by_query(es_document, parent, fields, fields_map) ==
    Task("update_child_documents_by_query", es_document, parent.model,
         parent.pk, NoId, ListOfFields(fields), fields_map)

remove_doc_from_es_index(es_document, pk) ==
    Task("remove_doc_from_es_index", es_document, "", pk, NoId, <<>>, <<>>)

\* Faulty variant: avoid_creation is not consulted.
get_or_create_doc_ignoring_avoid_creation(es_document, instance, avoid_creation) ==
    LET doc_id == DocId(es_document, instance.pk)
        found == Doc(es_document, doc_id) \in index
    IN [found |-> found,
        id |-> doc_id,
        run |-> [tasks |-> IF ~found
                           THEN <<save_document_in_es(instance, es_document)>>
                           ELSE <<>>,
                 lookups |-> <<Read("get", es_document, doc_id)>>,
                 raised |-> ""]]

get_or_create_doc(es_document, instance, avoid_creation) ==
    LET doc_id == DocId(es_document, instance.pk)
        found == Doc(es_document, doc_id) \in index
    IN [found |-> found,
        id |-> doc_id,
        run |-> [tasks |-> IF ~found /\ ~avoid_creation
                           THEN <<save_document_in_es(instance, es_document)>>
                           ELSE <<>>,
                 lookups |-> <<Read("get", es_document, doc_id)>>,
                 raised |-> ""]]

\* Runs body(x) for each x of the sequence, in order.
RECURSIVE Sequentially(_)
Sequentially(runs) ==
    IF runs = <<>> THEN Nothing
    ELSE Then(Head(runs), Sequentially(Tail(runs)))

ForEach(s, body(_)) == Sequentially([i \in 1..Len(s) |-> body(s[i])])

(***************************************************************************)
(* update_es_documents: the field-level update path of a save.             *)
(***************************************************************************)
\* Faulty variant: only the first related parent receives a task.
BulkUpdateFirstOnly(es_document, parents, fields_to_update, fields_map) ==
    IF parents = <<>> THEN Nothing
    ELSE Enqueue(update_child_documents_by_query(
            es_document, Head(parents), fields_to_update, fields_map))

BulkUpdateEach(es_document, parents, fields_to_update, fields_map) ==
    ForEach(parents,
            LAMBDA parent : Enqueue(update_child_documents_by_query(
                                es_document, parent, fields_to_update,
                                fields_map)))

\* Faulty variant: the values are read from the main object, not from the
\* instance that was saved.
UpdateMainObjectReadingMainObject(es_document, main_object, fields_to_update, instance, fields_map) ==
    LET main_doc == get_or_create_doc(es_document, main_object, FALSE)
    IN Then(main_doc.run,
            IF main_doc.found /\ fields_to_update # <<>>
            THEN Enqueue(update_document_in_es(
                    es_document, main_doc.id,
                    document_fields_to_update(es_document, main_object,
                                              fields_to_update, main_object,
                                              fields_map)))
            ELSE Nothing)

\* Faulty variant: the update is enqueued whether or not the document was found.
UpdateMainObjectFoundOrNot(es_document, main_object, fields_to_update, instance, fields_map) ==
    LET main_doc == get_or_create_doc(es_document, main_object, FALSE)
    IN Then(main_doc.run,
            IF fields_to_update # <<>>
            THEN Enqueue(update_document_in_es(
                    es_document, main_doc.id,
                    document_fields_to_update(es_document, main_object,
                                              fields_to_update, instance,
                                              fields_map)))
            ELSE Nothing)

\* The body of the loop over main_objects in the default case.
UpdateMainObject(es_document, main_object, fields_to_update, instance, fields_map) ==
    LET main_doc == get_or_create_doc(es_document, main_object, FALSE)
    IN Then(main_doc.run,
            IF main_doc.found /\ fields_to_update # <<>>
            THEN Enqueue(update_document_in_es(
                    es_document, main_doc.id,
                    document_fields_to_update(es_document, main_object,
                                              fields_to_update, instance,
                                              fields_map)))
            ELSE Nothing)

\* Faulty variant: the parent cases are missing, so a parent's change is routed to
\* the default case and handled document by document.
UpdateEntryWithoutParentCase(main_model, es_document, instance, changed_fields, entry) ==
    LET query == entry[1]
        fields_map == entry[2]
        fields_to_update == get_fields_to_update(changed_fields, fields_map)
    IN IF instance.model \in {"ABARating", "PoliticalAffiliation", "School"}
          /\ es_document = "PositionDocument"
       THEN BulkUpdateEach(es_document, Filter("Person", query, instance),
                           fields_to_update, fields_map)
       ELSE IF instance.model = "Person" /\ es_document = "ESRECAPDocument"
       THEN BulkUpdateEach(es_document, Filter("Docket", query, instance),
                           fields_to_update, fields_map)
       ELSE ForEach(Filter(main_model, query, instance),
                    LAMBDA main_object :
                        UpdateMainObject(es_document, main_object,
                                         fields_to_update, instance,
                                         fields_map))

\* The body of the loop over mapping_fields: the match statement.
UpdateEntry(main_model, es_document, instance, changed_fields, entry) ==
    LET query == entry[1]
        fields_map == entry[2]
        fields_to_update == get_fields_to_update(changed_fields, fields_map)
    IN IF instance.model = "Person" /\ es_document = "PositionDocument"
          /\ query = <<"person">>
       THEN Enqueue(update_child_documents_by_query(
                es_document, instance, fields_to_update, fields_map))
       ELSE IF instance.model \in {"ABARating", "PoliticalAffiliation", "School"}
               /\ es_document = "PositionDocument"
       THEN BulkUpdateEach(es_document, Filter("Person", query, instance),
                           fields_to_update, fields_map)
       ELSE IF instance.model = "Docket" /\ es_document = "ESRECAPDocument"
       THEN Enqueue(update_child_documents_by_query(
                es_document, instance, fields_to_update, fields_map))
       ELSE IF instance.model = "Person" /\ es_document = "ESRECAPDocument"
       THEN BulkUpdateEach(es_document, Filter("Docket", query, instance),
                           fields_to_update, fields_map)
       ELSE ForEach(Filter(main_model, query, instance),
                    LAMBDA main_object :
                        UpdateMainObject(es_document, main_object,
                                         fields_to_update, instance,
                                         fields_map))

update_es_documents(main_model, es_document, instance, created, mapping_fields) ==
    IF created THEN Nothing
    ELSE IF updated_fields(instance, es_document) = <<>> THEN Nothing
    ELSE ForEach(mapping_fields,
                 LAMBDA entry :
                     UpdateEntry(main_model, es_document, instance,
                                 updated_fields(instance, es_document), entry))

(***************************************************************************)
(* The m2m flow.                                                           *)
(***************************************************************************)
update_m2m_field_in_es_document(instance, es_document, affected_field) ==
    LET document == get_or_create_doc(es_document, instance, FALSE)
    IN Then(document.run,
            IF ~document.found THEN Nothing
            ELSE IF affected_field \notin PrepareMethods(es_document)
            THEN Raise("AttributeError")
            ELSE Enqueue(update_document_in_es(
                    es_document, document.id,
                    << <<affected_field,
                         PreparedValue(affected_field, instance.pk)>> >>)))

\* The body of the loop over mapping_fields in update_remove_m2m_documents.
UpdateM2MEntry(main_model, es_document, instance, entry, affected_field) ==
    IF <<LowerName(main_model)>> # entry[1]
    THEN ForEach(Filter(main_model, entry[1], instance),
                 LAMBDA main_object :
                     update_m2m_field_in_es_document(main_object, es_document,
                                                     affected_field))
    ELSE update_m2m_field_in_es_document(instance, es_document, affected_field)

update_remove_m2m_documents(main_model, es_document, instance, mapping_fields, affected_field) ==
    ForEach(mapping_fields,
            LAMBDA entry : UpdateM2MEntry(main_model, es_document, instance,
                                          entry, affected_field))

(***************************************************************************)
(* The reverse flow: a reverse related record was saved.                   *)
(***************************************************************************)
\* The dict of fields update_reverse_related_documents computes for a parent.
RECURSIVE ReverseFields(_, _, _, _, _)
ReverseFields(acc, es_document, main_object, instance, affected_fields) ==
    IF affected_fields = <<>> THEN acc
    ELSE LET field == Head(affected_fields)
         IN ReverseFields(
                Put(acc, field,
                    IF field \in PrepareMethods(es_document)
                    THEN PreparedValue(field, main_object.pk)
                    ELSE AttrValue(field, Attribute(instance, field))),
                es_document, main_object, instance, Tail(affected_fields))

\* getattr(instance, field) fails for some field without a prepare method.
MissingAttribute(es_document, affected_fields) ==
    \E i \in 1..Len(affected_fields) :
        /\ affected_fields[i] \notin PrepareMethods(es_document)
        /\ affected_fields[i] \notin SrcFields

\* The body of the loop over main_objects.
UpdateReverseParent(es_document, main_object, instance, affected_fields) ==
    LET main_doc == get_or_create_doc(es_document, main_object, TRUE)
    IN Then(main_doc.run,
            IF ~main_doc.found THEN Nothing
            ELSE IF MissingAttribute(es_document, affected_fields)
            THEN Raise("AttributeError")
            ELSE Enqueue(update_document_in_es(
                    es_document, main_doc.id,
                    ReverseFields(<<>>, es_document, main_object, instance,
                                  affected_fields))))

\* Faulty variant: the cases of the match do not look at the document class.
UpdateReverseChildrenOfAnyDocument(es_document, instance, query_string, affected_fields) ==
    IF instance.model \in {"ABARating", "PoliticalAffiliation", "Education"}
    THEN BulkUpdateEach("PositionDocument",
                        Filter("Person", query_string, instance),
                        affected_fields, <<>>)
    ELSE IF instance.model = "BankruptcyInformation"
    THEN Enqueue(update_child_documents_by_query(
            "ESRECAPDocument", Related(instance, "docket"), affected_fields,
            <<>>))
    ELSE Nothing

\* The match statement that follows the loop.
UpdateReverseChildren(es_document, instance, query_string, affected_fields) ==
    IF instance.model \in {"ABARating", "PoliticalAffiliation", "Education"}
       /\ es_document = "PersonDocument"
    THEN BulkUpdateEach("PositionDocument",
                        Filter("Person", query_string, instance),
                        affected_fields, <<>>)
    ELSE IF instance.model = "BankruptcyInformation"
            /\ es_document = "DocketDocument"
    THEN Enqueue(update_child_documents_by_query(
            "ESRECAPDocument", Related(instance, "docket"), affected_fields,
            <<>>))
    ELSE Nothing

update_reverse_related_documents(main_model, es_document, instance, query_string, affected_fields) ==
    Then(ForEach(Filter(main_model, query_string, instance),
                 LAMBDA main_object :
                     UpdateReverseParent(es_document, main_object, instance,
                                         affected_fields)),
         UpdateReverseChildren(es_document, instance, query_string,
                               affected_fields))

(***************************************************************************)
(* The reverse-delete flow: a reverse related record was deleted.          *)
(***************************************************************************)
RECURSIVE PreparedFields(_, _, _, _)
PreparedFields(acc, es_document, main_object, affected_fields) ==
    IF affected_fields = <<>> THEN acc
    ELSE LET field == Head(affected_fields)
         IN PreparedFields(
                IF field \in PrepareMethods(es_document)
                THEN Put(acc, field, PreparedValue(field, main_object.pk))
                ELSE acc,
                es_document, main_object, Tail(affected_fields))

prepare_and_update_fields(affected_fields, es_document, doc_id, main_object) ==
    Enqueue(update_document_in_es(
        es_document, doc_id,
        PreparedFields(<<>>, es_document, main_object, affected_fields)))

\* The child document class of a parent document class.
ChildDocument(es_document) ==
    CASE es_document = "PersonDocument" -> "PositionDocument"
      [] es_document = "DocketDocument" -> "ESRECAPDocument"
      [] OTHER -> ""

\* Faulty variant: the parent document is updated and its children are left alone.
DeleteReverseParentOnly(es_document, child_document, instance, affected_fields) ==
    LET main_doc == get_or_create_doc(es_document, instance, TRUE)
    IN Then(main_doc.run,
            IF main_doc.found
            THEN prepare_and_update_fields(affected_fields, es_document,
                                           main_doc.id, instance)
            ELSE Nothing)

\* Faulty variant: the bulk update of the children does not depend on the
\* parent's document.
DeleteReverseParentUnguardedBulk(es_document, child_document, instance, affected_fields) ==
    LET main_doc == get_or_create_doc(es_document, instance, TRUE)
    IN Then(main_doc.run,
            Then(IF main_doc.found
                 THEN prepare_and_update_fields(affected_fields, es_document,
                                                main_doc.id, instance)
                 ELSE Nothing,
                 Enqueue(update_child_documents_by_query(
                     child_document, instance, affected_fields, <<>>))))

\* The Person and Docket cases: the parent document, then its children.
DeleteReverseParent(es_document, child_document, instance, affected_fields) ==
    LET main_doc == get_or_create_doc(es_document, instance, TRUE)
    IN Then(main_doc.run,
            IF main_doc.found
            THEN Then(prepare_and_update_fields(affected_fields, es_document,
                                                main_doc.id, instance),
                      Enqueue(update_child_documents_by_query(
                          child_document, instance, affected_fields, <<>>)))
            ELSE Nothing)

\* The body of the loop over main_objects in the default case.
DeleteReverseMainObject(es_document, main_object, affected_fields) ==
    LET main_doc == get_or_create_doc(es_document, main_object, TRUE)
    IN Then(main_doc.run,
            IF main_doc.found
            THEN prepare_and_update_fields(affected_fields, es_document,
                                           main_doc.id, main_object)
            ELSE Nothing)

delete_reverse_related_documents(main_model, es_document, instance, query_string, affected_fields) ==
    IF instance.model = "Person" /\ es_document = "PersonDocument"
    THEN DeleteReverseParent(es_document, ChildDocument("PersonDocument"),
                             instance, affected_fields)
    ELSE IF instance.model = "Docket" /\ es_document = "DocketDocument"
    THEN DeleteReverseParent(es_document, ChildDocument("DocketDocument"),
                             instance, affected_fields)
    ELSE ForEach(Filter(main_model, query_string, instance),
                 LAMBDA main_object :
                     DeleteReverseMainObject(es_document, main_object,
                                             affected_fields))

(***************************************************************************)
(* avoid_es_audio_indexing: the gate that keeps an unprocessed Audio out   *)
(* of the index.  update_fields is None or a list.                         *)
(***************************************************************************)
None == [none |-> TRUE, list |-> <<>>]
List(l) == [none |-> FALSE, list |-> l]

\* not update_fields
Falsy(update_fields) == update_fields.none \/ update_fields.list = <<>>

\* Faulty variant: the gate does not ask the index whether the document exists.
avoid_es_audio_indexing_without_exists(instance, es_document, update_fields) ==
    IF instance.model # "Audio"
    THEN [avoid |-> FALSE, lookups |-> <<>>]
    ELSE [avoid |-> \/ Falsy(update_fields)
                    \/ ~InSeq("processing_complete", update_fields.list),
          lookups |-> <<>>]

avoid_es_audio_indexing(instance, es_document, update_fields) ==
    IF instance.model # "Audio"
    THEN [avoid |-> FALSE, lookups |-> <<>>]
    ELSE [avoid |-> /\ Doc(es_document, <<"", instance.pk>>) \notin index
                    /\ \/ Falsy(update_fields)
                       \/ /\ ~Falsy(update_fields)
                          /\ ~InSeq("processing_complete", update_fields.list),
          lookups |-> <<Read("exists", es_document, <<"", instance.pk>>)>>]

(***************************************************************************)
(* The handlers of ESSignalProcessor.                                      *)
(***************************************************************************)
Si(task) == [task EXCEPT !.immutable = TRUE]

send_or_schedule_alerts(index_name) ==
    Task("send_or_schedule_alerts", index_name, "", 0, NoId, <<>>, <<>>)

process_percolator_response ==
    Task("process_percolator_response", "", "", 0, NoId, <<>>, <<>>)

\* chain(*signatures).apply_async(): the first step is enqueued and carries
\* the steps that follow it.
ChainApplyAsync(signatures) ==
    Enqueue([Head(signatures) EXCEPT !.rest = Tail(signatures)])

\* Faulty variant: the three steps are enqueued side by side, not chained.
SaveGroup(instance, es_document) ==
    [tasks |-> <<Si(save_document_in_es(instance, es_document)),
                 send_or_schedule_alerts(es_document),
                 process_percolator_response>>,
     lookups |-> <<>>, raised |-> ""]

\* The chain handle_save builds.
SaveChain(instance, es_document) ==
    ChainApplyAsync(<<Si(save_document_in_es(instance, es_document)),
                      send_or_schedule_alerts(es_document),
                      process_percolator_response>>)

\* The branch taken when the sender's save mapping is empty.
IndexUnlessAvoided(instance, es_document, update_fields) ==
    LET gate == avoid_es_audio_indexing(instance, es_document, update_fields)
    IN Then([tasks |-> <<>>, lookups |-> gate.lookups, raised |-> ""],
            IF gate.avoid THEN Nothing ELSE SaveChain(instance, es_document))

\* @elasticsearch_enabled: the decorated handler runs only while indexing is
\* switched on; otherwise the call returns at once.
elasticsearch_enabled(run) == IF enabled THEN run ELSE Nothing

\* Faulty variant: the chain is enqueued whatever the sender's mapping holds.
handle_save_always_indexing(sender, instance, created, update_fields) ==
    elasticsearch_enabled(LET mapping_fields == Get(processor.save, sender)
    IN Then(IF ~created
            THEN update_es_documents(processor.main_model,
                                     processor.es_document, instance, created,
                                     mapping_fields)
            ELSE Nothing,
            IndexUnlessAvoided(instance, processor.es_document,
                               update_fields)))

\* Faulty variant: the created flag is not passed on to the update path.
handle_save_dropping_created(sender, instance, created, update_fields) ==
    elasticsearch_enabled(LET mapping_fields == Get(processor.save, sender)
    IN Then(update_es_documents(processor.main_model, processor.es_document,
                                instance, FALSE, mapping_fields),
            IF mapping_fields = <<>>
            THEN IndexUnlessAvoided(instance, processor.es_document,
                                    update_fields)
            ELSE Nothing))

handle_save(sender, instance, created, update_fields) ==
    elasticsearch_enabled(LET mapping_fields == Get(processor.save, sender)
    IN Then(IF ~created
            THEN update_es_documents(processor.main_model,
                                     processor.es_document, instance, created,
                                     mapping_fields)
            ELSE Nothing,
            IF mapping_fields = <<>>
            THEN IndexUnlessAvoided(instance, processor.es_document,
                                    update_fields)
            ELSE Nothing))

\* Faulty variant: the handler is not decorated.
handle_delete_undecorated(sender, instance) ==
    Enqueue(remove_doc_from_es_index(processor.es_document, instance.pk))

handle_delete(sender, instance) ==
    elasticsearch_enabled(
        Enqueue(remove_doc_from_es_index(processor.es_document, instance.pk)))

\* Faulty variant: post_clear is handled like post_add and post_remove.
handle_m2m_on_clear_too(sender, instance, action) ==
    elasticsearch_enabled(
        IF action \in {"post_add", "post_remove", "post_clear"}
        THEN ForEach(Get(processor.m2m, sender),
                     LAMBDA entry :
                         update_remove_m2m_documents(
                             processor.main_model, processor.es_document,
                             instance, Get(processor.m2m, sender),
                             Keys(entry[2])[1]))
        ELSE Nothing)

handle_m2m(sender, instance, action) ==
    elasticsearch_enabled(
        IF action = "post_add" \/ action = "post_remove"
        THEN ForEach(Get(processor.m2m, sender),
                     LAMBDA entry :
                         update_remove_m2m_documents(
                             processor.main_model, processor.es_document,
                             instance, Get(processor.m2m, sender),
                             Keys(entry[2])[1]))
        ELSE Nothing)

\* fields_map[instance.type], or fields_map["all"] on KeyError/AttributeError
\* Faulty variant: the entry for the record's type is never used.
AffectedFieldsOfAll(fields_map, instance) == Get(fields_map, "all")

AffectedFields(fields_map, instance) ==
    IF instance.type # "" /\ HasKey(fields_map, instance.type)
    THEN Get(fields_map, instance.type)
    ELSE Get(fields_map, "all")

\* query_string.split("__")[-1]
LastSegment(query_string) == query_string[Len(query_string)]

\* getattr(instance, instance_field, instance)
RelatedOrSelf(instance, instance_field) ==
    IF RelatedModel(instance.model, instance_field) # ""
    THEN [instance EXCEPT
            !.model = RelatedModel(instance.model, instance_field),
            !.pk = db.fk[1][instance.pk],
            !.type = ""]
    ELSE instance

\* The body of the loop of handle_reverse_actions.
ReverseEntry(instance, entry) ==
    IF ~HasKey(entry[2], "all")
       /\ ~(instance.type # "" /\ HasKey(entry[2], instance.type))
    THEN Raise("KeyError")
    ELSE update_reverse_related_documents(
            processor.main_model, processor.es_document,
            RelatedOrSelf(instance, LastSegment(entry[1])), entry[1],
            AffectedFields(entry[2], instance))

handle_reverse_actions(sender, instance) ==
    elasticsearch_enabled(ForEach(Get(processor.reverse, sender),
            LAMBDA entry : ReverseEntry(instance, entry)))

\* The loop of handle_reverse_actions_delete: instance is rebound by each
\* pass, and a related object that is gone ends the handler.
RECURSIVE ReverseDeleteLoopPropagating(_, _)
\* Faulty variant: ObjectDoesNotExist is not caught.
ReverseDeleteLoopPropagating(entries, instance) ==
    IF entries = <<>> THEN Nothing
    ELSE IF ~HasKey(Head(entries)[2], "all")
            /\ ~(instance.type # "" /\ HasKey(Head(entries)[2], instance.type))
    THEN Raise("KeyError")
    ELSE IF RelatedModel(instance.model, LastSegment(Head(entries)[1])) # ""
            /\ instance.stale
    THEN Raise("ObjectDoesNotExist")
    ELSE Then(delete_reverse_related_documents(
                processor.main_model, processor.es_document,
                RelatedOrSelf(instance, LastSegment(Head(entries)[1])),
                Head(entries)[1],
                AffectedFields(Head(entries)[2], instance)),
              ReverseDeleteLoopPropagating(
                Tail(entries),
                RelatedOrSelf(instance, LastSegment(Head(entries)[1]))))

RECURSIVE ReverseDeleteLoop(_, _)
ReverseDeleteLoop(entries, instance) ==
    IF entries = <<>> THEN Nothing
    ELSE IF ~HasKey(Head(entries)[2], "all")
            /\ ~(instance.type # "" /\ HasKey(Head(entries)[2], instance.type))
    THEN Raise("KeyError")
    ELSE IF RelatedModel(instance.model, LastSegment(Head(entries)[1])) # ""
            /\ instance.stale
    THEN Nothing
    ELSE Then(delete_reverse_related_documents(
                processor.main_model, processor.es_document,
                RelatedOrSelf(instance, LastSegment(Head(entries)[1])),
                Head(entries)[1],
                AffectedFields(Head(entries)[2], instance)),
              ReverseDeleteLoop(
                Tail(entries),
                RelatedOrSelf(instance, LastSegment(Head(entries)[1]))))

handle_reverse_actions_delete(sender, instance) ==
    elasticsearch_enabled(ReverseDeleteLoop(Get(processor.reverse_delete, sender), instance))

(***************************************************************************)
(* Registration.  setup() connects each handler to its signal once per     *)
(* sender of the matching mapping section, under a dispatch_uid made of a  *)
(* fixed text around the main model's name, "_" and the sender's name.  A  *)
(* text is the sequence of its pieces.  Signal.connect adds a receiver     *)
(* unless one is connected under the same (dispatch_uid, sender); without  *)
(* a dispatch_uid the receiver itself takes its place in the key.          *)
(***************************************************************************)
MaxSetups == 3      \* calls of setup(), the constructor's included

NoUid == <<>>

Handler(owner, method) == [owner |-> owner, method |-> method]

\* signal.connect(handler, sender=model, dispatch_uid=..., weak=weak)
Connect(regs, signal, handler, sender, dispatch_uid) ==
    LET lookup_key == IF dispatch_uid # NoUid THEN <<dispatch_uid, sender>>
                      ELSE <<handler, sender>>
    IN IF \E i \in 1..Len(regs) :
            regs[i].signal = signal /\ regs[i].key = lookup_key
       THEN regs
       ELSE Append(regs, [signal |-> signal, key |-> lookup_key,
                          handler |-> handler, sender |-> sender])

\* f"{uid_base}_{model_name}"
DispatchUid(uid_base, model_name) == uid_base \o <<"_", model_name>>

\* The inner loop of connect_signals, over signal_to_uid_mapping.items().
RECURSIVE ConnectEach(_, _, _, _)
ConnectEach(regs, model, handler, signal_to_uid_mapping) ==
    IF signal_to_uid_mapping = <<>> THEN regs
    ELSE ConnectEach(
            Connect(regs, Head(signal_to_uid_mapping)[1], handler, model,
                    DispatchUid(Head(signal_to_uid_mapping)[2],
                                LowerName(model))),
            model, handler, Tail(signal_to_uid_mapping))

\* Faulty variant: the receivers are connected without a dispatch_uid.
RECURSIVE connect_signals_without_uid(_, _, _, _)
connect_signals_without_uid(regs, models, handler, signal_to_uid_mapping) ==
    IF models = <<>> THEN regs
    ELSE connect_signals_without_uid(
            Connect(regs, signal_to_uid_mapping[1][1], handler, Head(models),
                    NoUid),
            Tail(models), handler, signal_to_uid_mapping)

RECURSIVE connect_signals(_, _, _, _)
connect_signals(regs, models, handler, signal_to_uid_mapping) ==
    IF models = <<>> THEN regs
    ELSE connect_signals(
            ConnectEach(regs, Head(models), handler, signal_to_uid_mapping),
            Tail(models), handler, signal_to_uid_mapping)

\* setup() of the processor self, whose bound methods are the handlers.
setup(regs, self, owner) ==
    LET main_model == LowerName(self.main_model)
        saved == connect_signals(
            regs, Keys(self.save), Handler(owner, "handle_save"),
            << <<"post_save", <<"update_related_", main_model,
                                "_documents_in_es_index">> >> >>)
        deleted == connect_signals(
            saved, self.delete, Handler(owner, "handle_delete"),
            << <<"post_delete", <<"remove_", main_model,
                                  "_from_es_index">> >> >>)
        m2m == connect_signals(
            deleted, Keys(self.m2m), Handler(owner, "handle_m2m"),
            << <<"m2m_changed", <<"update_", main_model,
                                  "_m2m_in_es_index">> >> >>)
        reverse == connect_signals(
            m2m, Keys(self.reverse), Handler(owner, "handle_reverse_actions"),
            << <<"post_save", <<"update_reverse_related_", main_model,
                                "_on_save">> >> >>)
    IN connect_signals(
            reverse, Keys(self.reverse_delete),
            Handler(owner, "handle_reverse_actions_delete"),
            << <<"post_delete", <<"update_reverse_related_", main_model,
                                  "_on_delete">> >> >>)

NoSignal == [signal |-> "", sender |-> "", handlers |-> <<>>]

\* __init__: the processor is constructed and its setup() has run.
Constructed ==
    /\ setups = <<processor>>
    /\ receivers = setup(<<>>, processor, 1)
    /\ invoked = NoSignal

(***************************************************************************)
(* Change events.  An instance arrives with its class, primary key, type   *)
(* attribute ("" when it has none), the tracker attributes it carries, the *)
(* tracker's snapshot, and whether the row its foreign key names is gone.  *)
(***************************************************************************)
Instance(model, pk, type, trackers, prev, stale) ==
    [model |-> model, pk |-> pk, type |-> type, trackers |-> trackers,
     prev |-> prev, stale |-> stale]

PlainInstance(model, pk) ==
    Instance(model, pk, "", {}, db.vals[pk], FALSE)

Event(handler, sender, instance, created, update_fields, action) ==
    [handler |-> handler, sender |-> sender, instance |-> instance,
     created |-> created, update_fields |-> update_fields, action |-> action,
     idx |-> index]

NoEvent ==
    [handler |-> "", sender |-> "",
     instance |-> Instance("", 0, "", {}, [f \in SrcFields |-> 0], FALSE),
     created |-> FALSE, update_fields |-> None, action |-> "", idx |-> {}]

UpdateFieldLists ==
    {None, List(<<>>), List(<<"duration">>), List(<<"processing_complete">>)}

M2MActions ==
    {"pre_add", "post_add", "pre_remove", "post_remove", "pre_clear",
     "post_clear"}

InstanceTypes == {"", "t1"}

\* The tracker attributes an instance may carry.
TrackerSets ==
    {{}, {IF TrackerAttribute(processor.es_document) = ""
          THEN "es_p_field_tracker"
          ELSE TrackerAttribute(processor.es_document)}}

Senders(section) == {section[i][1] : i \in 1..Len(section)}

\* Faulty variant: the handler writes the documents it creates itself.
HandledWritingTheIndex(event, run) ==
    /\ ev = NoEvent
    /\ queue = <<>>
    /\ ev' = event
    /\ enq' = run.tasks
    /\ lookups' = run.lookups
    /\ raised' = run.raised
    /\ queue' = queue \o SelectSeq(run.tasks, LAMBDA t :
                            t.name # "save_document_in_es" \/ t.rest # <<>>)
    /\ index' = index \cup
            {Doc(run.tasks[i].doc, DocId(run.tasks[i].doc, run.tasks[i].pk)) :
                i \in {j \in 1..Len(run.tasks) :
                        /\ run.tasks[j].name = "save_document_in_es"
                        /\ run.tasks[j].rest = <<>>}}
    /\ UNCHANGED <<processor, db, enabled, registry, written, applied>>

\* A handler ran: what it enqueued goes to the work queue.  In this model
\* a change event is handled once the tasks of the event before it have run.
Handled(event, run) ==
    /\ ev = NoEvent
    /\ queue = <<>>
    /\ ev' = event
    /\ enq' = run.tasks
    /\ lookups' = run.lookups
    /\ raised' = run.raised
    /\ queue' = queue \o run.tasks
    /\ UNCHANGED <<processor, db, index, enabled, registry, written, applied>>

Save ==
    \E sender \in Senders(processor.save), pk \in Pks, created \in BOOLEAN,
       update_fields \in UpdateFieldLists, trackers \in TrackerSets,
       prev \in [SrcFields -> Values] :
        /\ trackers = {} => prev = db.vals[pk]
        /\ LET instance == Instance(InstanceModel(sender), pk, "", trackers,
                                    prev, FALSE)
           IN Handled(Event("save", sender, instance, created, update_fields, ""),
                      handle_save(sender, instance, created, update_fields))

Delete ==
    \E i \in 1..Len(processor.delete), pk \in Pks :
        LET instance == PlainInstance(processor.delete[i], pk)
        IN Handled(Event("delete", processor.delete[i], instance, FALSE, None, ""),
                   handle_delete(processor.delete[i], instance))

M2MChanged ==
    \E sender \in Senders(processor.m2m), pk \in Pks, action \in M2MActions :
        LET instance == PlainInstance(InstanceModel(sender), pk)
        IN Handled(Event("m2m", sender, instance, FALSE, None, action),
                   handle_m2m(sender, instance, action))

ReverseSave ==
    \E sender \in Senders(processor.reverse), pk \in Pks,
       type \in InstanceTypes :
        LET instance == Instance(sender, pk, type, {}, db.vals[pk], FALSE)
        IN Handled(Event("reverse", sender, instance, FALSE, None, ""),
                   handle_reverse_actions(sender, instance))

ReverseDelete ==
    \E sender \in Senders(processor.reverse_delete), pk \in Pks,
       type \in InstanceTypes, stale \in BOOLEAN :
        LET instance == Instance(sender, pk, type, {}, db.vals[pk], stale)
        IN Handled(Event("reverse_delete", sender, instance, FALSE, None, ""),
                   handle_reverse_actions_delete(sender, instance))

\* The handler has returned to the code that changed the row.
Return ==
    /\ ev # NoEvent
    /\ ev' = NoEvent
    /\ enq' = <<>>
    /\ lookups' = <<>>
    /\ raised' = ""
    /\ UNCHANGED <<processor, db, index, queue, enabled, registry, written, applied>>

(***************************************************************************)
(* The workers take tasks off the queue in order, so the next task to      *)
(* finish is one of the first Workers waiting tasks.  A task that carries  *)
(* chained steps enqueues the first of them once it has finished, passing  *)
(* its result unless that step is immutable.                               *)
(***************************************************************************)
ApplyTask(task, documents) ==
    IF task.name = "save_document_in_es"
    THEN documents \cup {Doc(task.doc, DocId(task.doc, task.pk))}
    ELSE IF task.name = "remove_doc_from_es_index"
    THEN documents \ {Doc(task.doc, DocId(task.doc, task.pk))}
    ELSE documents

NextStep(task) ==
    IF task.rest = <<>> THEN <<>>
    ELSE <<[Head(task.rest) EXCEPT
                !.rest = Tail(task.rest),
                !.args = IF Head(task.rest).immutable THEN <<>>
                         ELSE <<task.name>>]>>

Without(s, i) == [j \in 1..(Len(s) - 1) |-> IF j < i THEN s[j] ELSE s[j + 1]]

RunTask ==
    \E i \in 1..Len(queue) :
        /\ i <= Workers
        /\ index' = ApplyTask(queue[i], index)
        /\ queue' = Without(queue, i) \o NextStep(queue[i])
        /\ UNCHANGED <<processor, db, ev, enq, lookups, raised, enabled,
                       registry, written, applied>>

\* No helper function has been called on its own.
NoCall ==
    [fn |-> "", es_document |-> "", main_object |-> 0, field_list |-> <<>>,
     instance |-> 0, fields_map |-> <<>>, trackers |-> {}, snapshot |-> <<>>]

\* The child documents the index holds when the processor is constructed;
\* the documents of its own class are yet to be created.
InitialIndex ==
    IF db.children_indexed /\ ChildDocument(processor.es_document) # ""
    THEN {Doc(ChildDocument(processor.es_document),
              DocId(ChildDocument(processor.es_document), m)) : m \in Pks}
    ELSE {}

Init ==
    /\ processor \in Processors
    /\ db \in Stores
    /\ index = InitialIndex
    /\ queue = <<>>
    /\ ev = NoEvent
    /\ enq = <<>>
    /\ lookups = <<>>
    /\ raised = ""
    /\ enabled = TRUE
    /\ Constructed
    /\ content = <<>>
    /\ executed = <<>>
    /\ gone = {}
    /\ call = NoCall
    /\ result = <<>>

Next ==
    \/ Save
    \/ Delete
    \/ M2MChanged
    \/ ReverseSave
    \/ ReverseDelete
    \/ Return
    \/ RunTask

Spec == Init /\ [][Next]_vars

\* The same processor, with indexing switched on or off by the settings.
InitEitherWay ==
    /\ processor \in Processors
    /\ db \in Stores
    /\ index = InitialIndex
    /\ queue = <<>>
    /\ ev = NoEvent
    /\ enq = <<>>
    /\ lookups = <<>>
    /\ raised = ""
    /\ enabled \in BOOLEAN
    /\ Constructed
    /\ content = <<>>
    /\ executed = <<>>
    /\ gone = {}
    /\ call = NoCall
    /\ result = <<>>

SpecEitherWay == InitEitherWay /\ [][Next]_vars

(***************************************************************************)
(* Registration over time: further processors are constructed, or setup()  *)
(* runs again for one that exists, and signals are sent to the receivers.  *)
(***************************************************************************)
Signals == {"post_save", "post_delete", "m2m_changed"}

SenderModels ==
    UNION {Senders(p.save) \cup Senders(p.m2m) \cup Senders(p.reverse)
           \cup Senders(p.reverse_delete)
           \cup {p.delete[i] : i \in 1..Len(p.delete)} : p \in Processors}

RunSetup ==
    \E self \in Processors :
        /\ Len(setups) < MaxSetups
        /\ receivers' = setup(receivers, self, Len(setups) + 1)
        /\ setups' = Append(setups, self)
        /\ UNCHANGED <<processor, db, index, queue, ev, enq, lookups, raised,
                       enabled, invoked, written, applied>>

\* signal.send(sender): every receiver connected for the sender is called.
Send ==
    \E signal \in Signals, sender \in SenderModels :
        /\ invoked' =
            [signal |-> signal, sender |-> sender,
             handlers |-> LET live == SelectSeq(receivers, LAMBDA r :
                                        r.signal = signal /\ r.sender = sender)
                          IN [i \in 1..Len(live) |-> live[i].handler]]
        /\ UNCHANGED <<processor, db, index, queue, ev, enq, lookups, raised,
                       enabled, receivers, setups, written, applied>>

NextSetup ==
    \/ RunSetup
    \/ Send

SpecSetup == Init /\ [][NextSetup]_vars

(***************************************************************************)
(* Writes over time.  The rows of a related model change and are saved     *)
(* while earlier tasks are still queued, and the workers run the queued    *)
(* tasks in any order within their window.  The processor is the one whose *)
(* related saves all go through the default case of update_es_documents,   *)
(* so that every task carries the values it writes; the documents of the   *)
(* main model are indexed and hold the values of the store when the run    *)
(* starts.                                                                 *)
(***************************************************************************)
MaxWrites == 2      \* a row changes while fewer tasks are queued or done

\* The (sender, lookup path, field, document field) tuples of the save
\* mapping.
Sources ==
    UNION {UNION {UNION {
        {[sender |-> processor.save[a][1],
          query |-> processor.save[a][2][b][1],
          field |-> processor.save[a][2][b][2][c][1],
          doc_field |-> processor.save[a][2][b][2][c][2][d]] :
            d \in 1..Len(processor.save[a][2][b][2][c][2])} :
            c \in 1..Len(processor.save[a][2][b][2])} :
            b \in 1..Len(processor.save[a][2])} :
            a \in 1..Len(processor.save)}

DocFields == {x.doc_field : x \in Sources}

\* The value a document field of main object m has in the store.
Projection(m, doc_field) ==
    LET x == CHOOSE x \in Sources : x.doc_field = doc_field
        row == db.fk[PathSlot(x.query)][m]
    IN IF IsDisplay(x.field)
       THEN DisplayValue(DisplayedField(x.field),
                         db.vals[row][DisplayedField(x.field)])
       ELSE AttrValue(x.field, db.vals[row][x.field])

\* A partial update overwrites the fields it carries and no other.
ApplyWrite(task, documents) ==
    IF task.name = "update_document_in_es" /\ task.id[2] \in DOMAIN documents
    THEN [documents EXCEPT ![task.id[2]] =
            [f \in DOMAIN @ |-> IF HasKey(task.fields, f)
                                THEN Get(task.fields, f) ELSE @[f]]]
    ELSE documents

InitWrites ==
    /\ processor = AudioProcessor
    /\ db \in Stores
    /\ index = {Doc(processor.es_document, DocId(processor.es_document, m)) :
                    m \in Pks}
    /\ queue = <<>>
    /\ ev = NoEvent
    /\ enq = <<>>
    /\ lookups = <<>>
    /\ raised = ""
    /\ enabled = TRUE
    /\ Constructed
    /\ content = [m \in Pks |-> [f \in DocFields |-> Projection(m, f)]]
    /\ executed = <<>>
    /\ gone = {}
    /\ call = NoCall
    /\ result = <<>>

\* instance.save() writes the row; the tracker still holds the values the
\* row had before.
Write ==
    \E a \in 1..Len(processor.save), pk \in Pks, field \in SrcFields,
       value \in Values :
        LET sender == processor.save[a][1]
            instance == Instance(InstanceModel(sender), pk, "",
                                 {TrackerAttribute(processor.es_document)},
                                 db.vals[pk], FALSE)
        IN /\ processor.save[a][2] # <<>>
           /\ ev = NoEvent
           /\ Len(queue) + Len(executed) < MaxWrites
           /\ value # db.vals[pk][field]
           /\ db' = [db EXCEPT !.vals[pk][field] = value]
           /\ ev' = Event("saving", sender, instance, FALSE, None, "")
           /\ UNCHANGED <<processor, index, queue, enq, lookups, raised,
                          enabled, registry, written, applied>>

\* post_save, sent by the save() that wrote the row, reaches handle_save.
SaveWritten ==
    /\ ev.handler = "saving"
    /\ LET run == handle_save(ev.sender, ev.instance, FALSE, None)
       IN /\ ev' = [ev EXCEPT !.handler = "save", !.idx = index]
          /\ enq' = run.tasks
          /\ lookups' = run.lookups
          /\ raised' = run.raised
          /\ queue' = queue \o run.tasks
    /\ UNCHANGED <<processor, db, index, enabled, registry, written, applied>>

\* save() returns to its caller.
Returned == ev.handler = "save" /\ Return

\* A worker runs one of the first Workers queued tasks.
RunWrite ==
    \E i \in 1..Len(queue) :
        /\ i <= Workers
        /\ index' = ApplyTask(queue[i], index)
        /\ content' = ApplyWrite(queue[i], content)
        /\ executed' = Append(executed, [task |-> queue[i], at |-> i])
        /\ queue' = Without(queue, i) \o NextStep(queue[i])
        /\ UNCHANGED <<processor, db, ev, enq, lookups, raised, enabled,
                       registry, gone, applied>>

NextWrites ==
    \/ Write
    \/ SaveWritten
    \/ Returned
    \/ RunWrite

SpecWrites == InitWrites /\ [][NextWrites]_vars

(***************************************************************************)
(* Deletions over time.  A row of the main model is saved once the tasks   *)
(* of the events before it have run, and rows are deleted while tasks are  *)
(* still queued; a deleted row is not saved again.  The workers run the    *)
(* queued tasks in any order within their window.                          *)
(***************************************************************************)
\* instance.save() of a row of the main model reaches handle_save.
SaveLive ==
    \E pk \in Pks \ gone, created \in BOOLEAN,
       update_fields \in UpdateFieldLists :
        LET sender == processor.main_model
            instance == PlainInstance(sender, pk)
            run == handle_save(sender, instance, created, update_fields)
        IN /\ ev = NoEvent
           /\ queue = <<>>
           /\ ev' = Event("save", sender, instance, created, update_fields, "")
           /\ enq' = run.tasks
           /\ lookups' = run.lookups
           /\ raised' = run.raised
           /\ queue' = queue \o run.tasks
           /\ UNCHANGED <<processor, db, index, enabled, registry, content,
                          executed, gone, applied>>

\* instance.delete() of a row of the main model reaches handle_delete.
DeleteLive ==
    \E i \in 1..Len(processor.delete), pk \in Pks \ gone :
        LET sender == processor.delete[i]
            instance == PlainInstance(sender, pk)
            run == handle_delete(sender, instance)
        IN /\ ev = NoEvent
           /\ sender = processor.main_model
           /\ ev' = Event("delete", sender, instance, FALSE, None, "")
           /\ enq' = run.tasks
           /\ lookups' = run.lookups
           /\ raised' = run.raised
           /\ queue' = queue \o run.tasks
           /\ gone' = gone \cup {pk}
           /\ UNCHANGED <<processor, db, index, enabled, registry, content,
                          executed, applied>>

NextLifecycle ==
    \/ SaveLive
    \/ DeleteLive
    \/ Return
    \/ RunTask

SpecLifecycle == Init /\ [][NextLifecycle]_vars

(***************************************************************************)
(* The helper functions called on their own, once each run, on arguments   *)
(* drawn from the values their callers can pass: a document class, a       *)
(* fields_map of a mapping entry, a list of keys of that map, a main       *)
(* object and an instance of the store.                                    *)
(***************************************************************************)
MaxFields == 2      \* length of the field lists passed

DocumentClasses == {"AudioDocument", "PersonDocument", "PositionDocument"}

\* fields_map values of mapping entries: plain and display keys, document
\* fields with and without a prepare method, and two keys that lead to the
\* same document field.
SampleFieldMaps ==
    {<< <<"name", <<"caseName">> >>, <<"get_status_display", <<"source">> >> >>,
     << <<"name", <<"caseName", "text">> >>,
        <<"get_status_display", <<"source", "panel_ids">> >>,
        <<"status", <<"caseName">> >> >>,
     << <<"status", <<"school">> >>, <<"get_name_display", <<"school">> >> >>}

KeySet(d) == {d[i][1] : i \in 1..Len(d)}

ListsOf(S, n) == UNION {[1..k -> S] : k \in 0..n}

InitFunctions ==
    /\ processor = AudioProcessor
    /\ db \in Stores
    /\ index = InitialIndex
    /\ queue = <<>>
    /\ ev = NoEvent
    /\ enq = <<>>
    /\ lookups = <<>>
    /\ raised = ""
    /\ enabled = TRUE
    /\ Constructed
    /\ content = <<>>
    /\ executed = <<>>
    /\ gone = {}
    /\ call = NoCall
    /\ result = <<>>

ApplyDocumentFields ==
    /\ call = NoCall
    /\ \E es_document \in DocumentClasses, fields_map \in SampleFieldMaps,
          m \in Pks, pk \in Pks :
           \E field_list \in ListsOf(KeySet(fields_map), MaxFields) :
               /\ call' = [fn |-> "document_fields_to_update",
                           es_document |-> es_document, main_object |-> m,
                           field_list |-> field_list, instance |-> pk,
                           fields_map |-> fields_map, trackers |-> {},
                           snapshot |-> <<>>]
               /\ result' = document_fields_to_update(
                               es_document, Entity(processor.main_model, m),
                               field_list, PlainInstance("Docket", pk),
                               fields_map)
               /\ UNCHANGED <<processor, db, index, queue, ev, enq, lookups,
                              raised, enabled, registry, written>>

\* Lists of distinct names, as a tracker reports its changed fields.
Distinct(s) == \A i, j \in 1..Len(s) : i # j => s[i] # s[j]

ApplyGetFields ==
    /\ call = NoCall
    /\ \E fields_map \in SampleFieldMaps :
           \E changed_fields \in {s \in ListsOf(SrcFields, MaxFields) : Distinct(s)} :
               /\ call' = [fn |-> "get_fields_to_update", es_document |-> "",
                           main_object |-> 0, field_list |-> changed_fields,
                           instance |-> 0, fields_map |-> fields_map,
                           trackers |-> {}, snapshot |-> <<>>]
               /\ result' = get_fields_to_update(changed_fields, fields_map)
               /\ UNCHANGED <<processor, db, index, queue, ev, enq, lookups,
                              raised, enabled, registry, written>>

\* The tracker attributes of the document classes.
TrackerAttributes ==
    {"es_oa_field_tracker", "es_pa_field_tracker", "es_rd_field_tracker",
     "es_p_field_tracker"}

ApplyUpdatedFields ==
    /\ call = NoCall
    /\ \E es_document \in DocumentClasses, pk \in Pks,
          trackers \in {{}} \cup {{t} : t \in TrackerAttributes},
          tracked \in SUBSET {TrackedFields[i] : i \in 1..Len(TrackedFields)} :
           \E prev \in [tracked -> 0..MaxPk] :
               /\ Cardinality(tracked) \in 1..(MaxFields + 1)
               /\ \A f \in tracked \ ForeignKeyFields : prev[f] \in Values
               /\ call' = [fn |-> "updated_fields", es_document |-> es_document,
                           main_object |-> 0, field_list |-> <<>>,
                           instance |-> pk, fields_map |-> <<>>,
                           trackers |-> trackers, snapshot |-> prev]
               /\ result' = updated_fields(
                               Instance("RECAPDocument", pk, "", trackers, prev,
                                        FALSE),
                               es_document)
               /\ UNCHANGED <<processor, db, index, queue, ev, enq, lookups,
                              raised, enabled, registry, written>>

NextFunctions ==
    \/ ApplyDocumentFields
    \/ ApplyGetFields
    \/ ApplyUpdatedFields

SpecFunctions == InitFunctions /\ [][NextFunctions]_vars

(***************************************************************************)
(* A processor whose reverse-delete mapping holds two entries for one      *)
(* sender, so that the loop of handle_reverse_actions_delete makes a       *)
(* second pass.  The second entry declares fields of its own for records   *)
(* of type "t1".                                                           *)
(***************************************************************************)
TwoEntryProcessor ==
    [PersonProcessor EXCEPT
        !.reverse_delete =
            << <<"Education",
                 << << <<"person">>,
                       << <<"all", <<"school">> >> >> >>,
                    << <<"school", "person">>,
                       << <<"all", <<"school">> >>,
                          <<"t1", <<"school", "aba_rating">> >> >> >> >> >> >>]

InitTwoEntries ==
    /\ processor = TwoEntryProcessor
    /\ db \in Stores
    /\ index = InitialIndex
    /\ queue = <<>>
    /\ ev = NoEvent
    /\ enq = <<>>
    /\ lookups = <<>>
    /\ raised = ""
    /\ enabled = TRUE
    /\ Constructed
    /\ content = <<>>
    /\ executed = <<>>
    /\ gone = {}
    /\ call = NoCall
    /\ result = <<>>

NextTwoEntries ==
    \/ Save
    \/ Delete
    \/ ReverseSave
    \/ ReverseDelete
    \/ Return
    \/ RunTask

SpecTwoEntries == InitTwoEntries /\ [][NextTwoEntries]_vars

(***************************************************************************)
(* Two document classes over one main model: a second processor is         *)
(* constructed for the Docket model, with another document class and the   *)
(* senders of the first.                                                   *)
(***************************************************************************)
SecondDocketProcessor ==
    [DocketProcessor EXCEPT !.es_document = "ESRECAPDocument"]

InitSharedModel ==
    /\ processor = DocketProcessor
    /\ db \in Stores
    /\ index = InitialIndex
    /\ queue = <<>>
    /\ ev = NoEvent
    /\ enq = <<>>
    /\ lookups = <<>>
    /\ raised = ""
    /\ enabled = TRUE
    /\ Constructed
    /\ content = <<>>
    /\ executed = <<>>
    /\ gone = {}
    /\ call = NoCall
    /\ result = <<>>

\* ESSignalProcessor(Docket, ESRECAPDocument, mapping)
ConstructSecond ==
    /\ Len(setups) < MaxSetups
    /\ receivers' = setup(receivers, SecondDocketProcessor, Len(setups) + 1)
    /\ setups' = Append(setups, SecondDocketProcessor)
    /\ UNCHANGED <<processor, db, index, queue, ev, enq, lookups, raised,
                   enabled, invoked, written, applied>>

NextSharedModel ==
    \/ RunSetup
    \/ ConstructSecond
    \/ Send

SpecSharedModel == InitSharedModel /\ [][NextSharedModel]_vars

(***************************************************************************)
(* Vocabulary of the properties.                                           *)
(***************************************************************************)
Named(tasks, name) == SelectSeq(tasks, LAMBDA t : t.name = name)

Count(tasks, name) == Len(Named(tasks, name))

StepNames(steps) == [i \in 1..Len(steps) |-> steps[i].name]

\* The three-step chain as it sits on the queue: its first step.
IsChainHead(t) ==
    /\ t.name = "save_document_in_es"
    /\ StepNames(t.rest) =
            <<"send_or_schedule_alerts", "process_percolator_response">>

\* A creation task enqueued on its own.
IsCreation(t) == t.name = "save_document_in_es" /\ t.rest = <<>>

Gets == SelectSeq(lookups, LAMBDA l : l.op = "get")

SaveMapping == Get(processor.save, ev.sender)

\* The touched-field list of the event names the completion flag.
TouchesCompletionFlag ==
    \E i \in 1..Len(ev.update_fields.list) :
        ev.update_fields.list[i] = "processing_complete"

\* The event is about an Audio whose document the index did not hold.
UnindexedAudio ==
    /\ ev.instance.model = "Audio"
    /\ Doc(processor.es_document, <<"", ev.instance.pk>>) \notin ev.idx

\* The instance carries the tracker of the processor's document class.
HasTracker ==
    /\ TrackerAttribute(processor.es_document) # ""
    /\ TrackerAttribute(processor.es_document) \in ev.instance.trackers

\* The tracked fields whose value differs from the snapshot.
ChangedSet ==
    {f \in SrcFields : db.vals[ev.instance.pk][f] # ev.instance.prev[f]}

(***************************************************************************)
(* C1: a save of a sender with an empty save mapping that the Audio gate   *)
(* lets through enqueues exactly one chain of save_document_in_es,         *)
(* send_or_schedule_alerts, process_percolator_response, in that order;    *)
(* send_or_schedule_alerts waits on the queue only with the result of      *)
(* save_document_in_es in hand, process_percolator_response only with the  *)
(* result of send_or_schedule_alerts.                                      *)
(***************************************************************************)
C1_ChainInOrder ==
    /\ (/\ ev.handler = "save"
        /\ SaveMapping = <<>>
        /\ ~(UnindexedAudio /\ ~TouchesCompletionFlag))
       => (Len(enq) = 1 /\ IsChainHead(enq[1]) /\ enq[1].args = <<>>)
    /\ \A i \in 1..Len(queue) :
        /\ queue[i].name = "send_or_schedule_alerts"
           => /\ queue[i].args = <<"save_document_in_es">>
              /\ StepNames(queue[i].rest) = <<"process_percolator_response">>
        /\ queue[i].name = "process_percolator_response"
           => /\ queue[i].args = <<"send_or_schedule_alerts">>
              /\ queue[i].rest = <<>>

\* The chain of a completed Audio has reached its third step.
C1_Witness ==
    /\ ev.handler = "save"
    /\ ev.instance.model = "Audio"
    /\ ev.idx = {}
    /\ TouchesCompletionFlag
    /\ Len(enq) = 1
    /\ Len(queue) = 1
    /\ queue[1].name = "process_percolator_response"
    /\ Doc("AudioDocument", <<"", ev.instance.pk>>) \in index

(***************************************************************************)
(* C2 as claimed: a save of an instance that carries the tracker and none  *)
(* of whose tracked fields differs from the snapshot enqueues no task of   *)
(* any kind, the three-step chain included.                                *)
(***************************************************************************)
C2_Original ==
    (ev.handler = "save" /\ HasTracker /\ ChangedSet = {}) => enq = <<>>

(***************************************************************************)
(* C2 amended: such a save enqueues no creation, single-document update or *)
(* bulk update task and reads no document; the three-step chain is the     *)
(* only task it may enqueue, and only when the sender's save mapping is    *)
(* empty.                                                                  *)
(***************************************************************************)
C2_NoChangeNoFieldUpdate ==
    (ev.handler = "save" /\ HasTracker /\ ChangedSet = {})
    => /\ Gets = <<>>
       /\ Len(enq) <= 1
       /\ \A i \in 1..Len(enq) : IsChainHead(enq[i]) /\ SaveMapping = <<>>

\* An unchanged Docket with related Audios is saved, not created.
C2_Witness ==
    /\ ev.handler = "save"
    /\ HasTracker
    /\ ChangedSet = {}
    /\ ~ev.created
    /\ SaveMapping # <<>>
    /\ Filter(processor.main_model, SaveMapping[1][1], ev.instance) # <<>>
    /\ enq = <<>>

(***************************************************************************)
(* C3: a save with created = true does nothing on the field-level update   *)
(* path: no document is read with a point lookup and no creation,          *)
(* single-document update or bulk update task is enqueued.                 *)
(***************************************************************************)
C3_CreatedSkipsUpdatePath ==
    (ev.handler = "save" /\ ev.created)
    => /\ Gets = <<>>
       /\ \A i \in 1..Len(enq) :
            /\ ~IsCreation(enq[i])
            /\ enq[i].name \notin {"update_document_in_es",
                                   "update_child_documents_by_query"}

\* A created instance with changed tracked fields, a non-empty mapping and
\* related main objects.
C3_Witness ==
    /\ ev.handler = "save"
    /\ ev.created
    /\ HasTracker
    /\ ChangedSet # {}
    /\ SaveMapping # <<>>
    /\ Filter(processor.main_model, SaveMapping[1][1], ev.instance) # <<>>
    /\ enq = <<>>

(***************************************************************************)
(* C4 as claimed: a non-created save of a parent (Person for               *)
(* PositionDocument, Docket for ESRECAPDocument) that changes a tracked    *)
(* field mapped to a child-document field enqueues exactly one bulk task,  *)
(* however many entries the mapping holds, and no single-document update.  *)
(***************************************************************************)
IsParentSave ==
    /\ ev.handler = "save"
    /\ ~ev.created
    /\ \/ ev.instance.model = "Person"
          /\ processor.es_document = "PositionDocument"
       \/ ev.instance.model = "Docket"
          /\ processor.es_document = "ESRECAPDocument"
    /\ HasTracker
    /\ \E i \in 1..Len(SaveMapping), f \in ChangedSet :
        \/ HasKey(SaveMapping[i][2], f)
        \/ HasKey(SaveMapping[i][2], DisplayName(f))

C4_Original ==
    IsParentSave
    => /\ Count(enq, "update_child_documents_by_query") = 1
       /\ Count(enq, "update_document_in_es") = 0

\* The entries of the save mapping that the parent case of the match takes.
ParentEntries ==
    {i \in 1..Len(SaveMapping) :
        ev.instance.model = "Docket" \/ SaveMapping[i][1] = <<"person">>}

\* The main objects the other entries resolve, entry by entry.
OtherMainObjects ==
    {<<i, j>> \in (1..Len(SaveMapping)) \X Pks :
        /\ i \notin ParentEntries
        /\ j <= Len(Filter(processor.main_model, SaveMapping[i][1],
                           ev.instance))}

(***************************************************************************)
(* C4 amended: such a save enqueues exactly one bulk task scoped to that   *)
(* parent for each mapping entry the parent case takes (for Person the     *)
(* entry whose lookup path is "person", for Docket every entry), whatever  *)
(* the number of children; those entries read no document and enqueue no   *)
(* single-document task, which only the main objects resolved by the other *)
(* entries can receive.                                                    *)
(***************************************************************************)
C4_OneBulkPerParentEntry ==
    IsParentSave
    => /\ Count(enq, "update_child_documents_by_query")
            = Cardinality(ParentEntries)
       /\ \A i \in 1..Len(enq) :
            enq[i].name = "update_child_documents_by_query"
            => /\ enq[i].doc = processor.es_document
               /\ enq[i].model = ev.instance.model
               /\ enq[i].pk = ev.instance.pk
       /\ Len(lookups) = Cardinality(OtherMainObjects)
       /\ Len(enq) - Count(enq, "update_child_documents_by_query")
            <= Cardinality(OtherMainObjects)

\* A Person with two indexed Position children changes its name: one bulk
\* task, whatever the number of children.
C4_Witness ==
    /\ IsParentSave
    /\ ev.instance.model = "Person"
    /\ Cardinality({m \in Pks :
            /\ db.fk[1][m] = ev.instance.pk
            /\ Doc("PositionDocument", <<"POSITION", m>>) \in ev.idx}) >= 2
    /\ Count(enq, "update_child_documents_by_query") = 1
    /\ enq[1].fields = << <<"name", NoValue>> >>

(***************************************************************************)
(* C5 as claimed: a save of a reverse related record none of whose parents *)
(* has a document in the index enqueues no task at all and raises nothing. *)
(***************************************************************************)
C5_Original ==
    (/\ ev.handler = "reverse"
     /\ \A i \in 1..Len(Get(processor.reverse, ev.sender)) :
          LET query == Get(processor.reverse, ev.sender)[i][1]
              parents == Filter(processor.main_model, query,
                                RelatedOrSelf(ev.instance, LastSegment(query)))
          IN \A j \in 1..Len(parents) :
                Doc(processor.es_document,
                    DocId(processor.es_document, parents[j].pk)) \notin ev.idx)
    => (enq = <<>> /\ raised = "")

(***************************************************************************)
(* C6 as claimed: an m2m_changed event with action post_add or post_remove *)
(* enqueues exactly one update_document_in_es task for each related main   *)
(* entity whose document exists, however many entries the m2m mapping has. *)
(***************************************************************************)
M2MMainPks ==
    UNION {LET key == Get(processor.m2m, ev.sender)[i][1]
               main_objects == Filter(processor.main_model, key, ev.instance)
           IN IF key = <<LowerName(processor.main_model)>>
              THEN {ev.instance.pk}
              ELSE {main_objects[j].pk : j \in 1..Len(main_objects)}
           : i \in 1..Len(Get(processor.m2m, ev.sender))}

C6_Original ==
    (ev.handler = "m2m" /\ ev.action \in {"post_add", "post_remove"})
    => \A pk \in M2MMainPks :
        Doc(processor.es_document, DocId(processor.es_document, pk)) \in ev.idx
        => Cardinality({i \in 1..Len(enq) :
                /\ enq[i].name = "update_document_in_es"
                /\ enq[i].id = DocId(processor.es_document, pk)}) = 1

(***************************************************************************)
(* C7 as claimed: no handler enqueues a creation task (alone or as the     *)
(* head of the chain) for an Audio whose document is absent from the index *)
(* unless the touched-field list of the event names "processing_complete". *)
(***************************************************************************)
C7_Original ==
    \A i \in 1..Len(enq) :
        (/\ enq[i].name = "save_document_in_es"
         /\ enq[i].model = "Audio"
         /\ Doc(enq[i].doc, DocId(enq[i].doc, enq[i].pk)) \notin ev.idx)
        => TouchesCompletionFlag

\* What the gate is said to answer for the event, on the index as the
\* handler read it.
GateCondition ==
    /\ ev.instance.model = "Audio"
    /\ Doc(processor.es_document, <<"", ev.instance.pk>>) \notin ev.idx
    /\ \/ ev.update_fields.none
       \/ ev.update_fields.list = <<>>
       \/ ~TouchesCompletionFlag

(***************************************************************************)
(* C8: avoid_es_audio_indexing answers true exactly when the instance is   *)
(* an Audio, its document is not in the index and the touched-field list   *)
(* is absent, empty or without "processing_complete"; a save of a sender   *)
(* with an empty save mapping enqueues nothing when the answer is true and *)
(* the three-step chain, alone, when it is false.                          *)
(***************************************************************************)
C8_GateDecidesIndexing ==
    /\ (ev.handler # "" /\ index = ev.idx)
       => (avoid_es_audio_indexing(ev.instance, processor.es_document,
                                   ev.update_fields).avoid <=> GateCondition)
    /\ (ev.handler = "save" /\ SaveMapping = <<>>)
       => IF GateCondition
          THEN enq = <<>>
          ELSE enq # <<>> /\ Tail(enq) = <<>> /\ IsChainHead(Head(enq))

\* A never-indexed Audio saved with update_fields ["duration"]: no task.
C8_Witness ==
    /\ ev.handler = "save"
    /\ ev.instance.model = "Audio"
    /\ ev.update_fields = List(<<"duration">>)
    /\ Doc("AudioDocument", <<"", ev.instance.pk>>) \notin ev.idx
    /\ lookups = <<Read("exists", "AudioDocument", <<"", ev.instance.pk>>)>>
    /\ enq = <<>>

\* The parent a reverse-delete event resolves, for the parent document
\* classes, whose reverse-delete mappings hold one entry.
ReverseDeleteParent ==
    RelatedOrSelf(ev.instance,
                  LastSegment(Get(processor.reverse_delete, ev.sender)[1][1]))

IsParentReverseDelete ==
    /\ ev.handler = "reverse_delete"
    /\ ~ev.instance.stale
    /\ processor.es_document \in {"PersonDocument", "DocketDocument"}
    /\ Doc(processor.es_document,
           DocId(processor.es_document, ReverseDeleteParent.pk)) \in ev.idx

(***************************************************************************)
(* C9 as claimed: the deletion of a reverse related record of a parent     *)
(* whose document is indexed enqueues exactly one bulk task scoped to that *)
(* parent and no update_document_in_es task.                               *)
(***************************************************************************)
C9_Original ==
    IsParentReverseDelete
    => /\ Count(enq, "update_child_documents_by_query") = 1
       /\ Count(enq, "update_document_in_es") = 0

(***************************************************************************)
(* C9 amended: the deletion of a reverse related record of a parent whose  *)
(* document is indexed enqueues exactly two tasks: one                     *)
(* update_document_in_es addressed to the parent's own document, then one  *)
(* bulk task for the child document class scoped to that parent, whatever  *)
(* the number of children; no single-document task addresses a child.      *)
(* When the parent's document is not indexed the handler enqueues nothing. *)
(***************************************************************************)
C9_ParentThenOneBulk ==
    /\ IsParentReverseDelete
       => /\ Len(enq) = 2
          /\ enq[1].name = "update_document_in_es"
          /\ enq[1].doc = processor.es_document
          /\ enq[1].id = DocId(processor.es_document, ReverseDeleteParent.pk)
          /\ enq[2].name = "update_child_documents_by_query"
          /\ enq[2].doc = ChildDocument(processor.es_document)
          /\ enq[2].model = processor.main_model
          /\ enq[2].pk = ReverseDeleteParent.pk
    /\ (/\ ev.handler = "reverse_delete"
        /\ processor.es_document \in {"PersonDocument", "DocketDocument"}
        /\ ~IsParentReverseDelete)
       => enq = <<>>

\* An Education of a Person with two indexed Positions is deleted.
C9_Witness ==
    /\ IsParentReverseDelete
    /\ ev.sender = "Education"
    /\ Cardinality({m \in Pks :
            /\ db.fk[1][m] = ReverseDeleteParent.pk
            /\ Doc("PositionDocument", <<"POSITION", m>>) \in ev.idx}) >= 2
    /\ Count(enq, "update_child_documents_by_query") = 1
    /\ Count(enq, "update_document_in_es") = 1

\* The point lookups of the event that found no document.
Misses(doc, id) ==
    SelectSeq(Gets, LAMBDA l : /\ l.doc = doc
                               /\ l.id = id
                               /\ Doc(doc, id) \notin ev.idx)

(***************************************************************************)
(* C10: in a save or m2m event, each point lookup that finds no document   *)
(* enqueues one creation task for the looked-up entity, nothing is raised, *)
(* and the event enqueues no update_document_in_es task for that document. *)
(***************************************************************************)
C10_MissCreatesAndSkipsUpdate ==
    ev.handler \in {"save", "m2m"}
    => \A k \in 1..Len(Gets) :
        LET doc == Gets[k].doc
            id == Gets[k].id
        IN Misses(doc, id) # <<>>
           => /\ raised = ""
              /\ Len(SelectSeq(enq, LAMBDA t : /\ IsCreation(t)
                                              /\ t.doc = doc
                                              /\ DocId(doc, t.pk) = id))
                    = Len(Misses(doc, id))
              /\ \A i \in 1..Len(enq) :
                    ~(/\ enq[i].name = "update_document_in_es"
                      /\ enq[i].doc = doc
                      /\ enq[i].id = id)

\* A Docket changes a field mapped into the document of an Audio that is
\* not indexed: the Audio's document is created, not patched.
C10_Witness ==
    /\ ev.handler = "save"
    /\ ev.sender = "Docket"
    /\ processor.es_document = "AudioDocument"
    /\ ChangedSet # {}
    /\ Len(Gets) = 1
    /\ Doc("AudioDocument", Gets[1].id) \notin ev.idx
    /\ Len(enq) = 1
    /\ IsCreation(enq[1])
    /\ enq[1].model = "Audio"

(***************************************************************************)
(* C11: the reverse and reverse-delete handlers never enqueue a            *)
(* save_document_in_es task, whatever the index holds, and a point lookup  *)
(* of theirs that finds no document leaves no task on the queue that       *)
(* addresses that document.                                                *)
(***************************************************************************)
C11_ReverseFlowsNeverCreate ==
    ev.handler \in {"reverse", "reverse_delete"}
    => /\ Count(enq, "save_document_in_es") = 0
       /\ \A k \in 1..Len(Gets) :
            Doc(Gets[k].doc, Gets[k].id) \notin ev.idx
            => \A i \in 1..Len(enq) :
                ~(/\ enq[i].doc = Gets[k].doc
                  /\ \/ enq[i].id = Gets[k].id
                     \/ DocId(enq[i].doc, enq[i].pk) = Gets[k].id
                  /\ enq[i].name \in {"save_document_in_es",
                                      "update_document_in_es"})

\* A reverse save and a reverse delete whose parent document is missing.
C11_Witness ==
    /\ ev.handler \in {"reverse", "reverse_delete"}
    /\ ~ev.instance.stale
    /\ Gets # <<>>
    /\ Doc(Gets[1].doc, Gets[1].id) \notin ev.idx
    /\ raised = ""

(***************************************************************************)
(* C12: while indexing is switched off, each of the five handlers returns  *)
(* without enqueuing a task, without reading the index and without         *)
(* raising, for every event.                                               *)
(***************************************************************************)
C12_DisabledHandlersDoNothing ==
    ~enabled
    => /\ enq = <<>>
       /\ lookups = <<>>
       /\ raised = ""
       /\ queue = <<>>
       /\ index = InitialIndex

\* A created save of the main model while indexing is switched off.
C12_Witness ==
    /\ ~enabled
    /\ ev.handler = "save"
    /\ ev.created
    /\ SaveMapping = <<>>
    /\ ev.instance.model # "Audio"
    /\ enq = <<>>

\* The event category a handler serves.
Category(method) ==
    CASE method = "handle_save" -> "save"
      [] method = "handle_delete" -> "delete"
      [] method = "handle_m2m" -> "m2m"
      [] method = "handle_reverse_actions" -> "reverse"
      [] OTHER -> "reverse-delete"

\* What a registration key is said to depend on.
KeyInputs(r) ==
    <<Category(r.handler.method), setups[r.handler.owner].main_model, r.sender>>

(***************************************************************************)
(* C13: the registration key of a receiver is determined by the event      *)
(* category, the main model and the sender, and two receivers of one       *)
(* signal never share a key; running setup() again for a processor that    *)
(* was set up leaves the receivers as they were; so a signal invokes each  *)
(* handler of each processor at most once.                                 *)
(***************************************************************************)
C13_RegistrationIdempotent ==
    /\ \A i, j \in 1..Len(receivers) :
        /\ KeyInputs(receivers[i]) = KeyInputs(receivers[j])
           => receivers[i].key = receivers[j].key
        /\ (receivers[i].signal = receivers[j].signal
            /\ receivers[i].key = receivers[j].key) => i = j
    /\ \A k \in 1..Len(setups) :
        setup(receivers, setups[k], Len(setups) + 1) = receivers
    /\ \A i, j \in 1..Len(invoked.handlers) :
        (/\ setups[invoked.handlers[i].owner]
                = setups[invoked.handlers[j].owner]
         /\ invoked.handlers[i].method = invoked.handlers[j].method)
        => i = j

\* setup() ran twice for the Person processor and a save of an Education
\* reached its reverse handler, once.
C13_Witness ==
    /\ Len(setups) >= 2
    /\ setups[1] = PersonProcessor
    /\ setups[2] = PersonProcessor
    /\ invoked.signal = "post_save"
    /\ invoked.sender = "Education"
    /\ invoked.handlers = <<Handler(1, "handle_reverse_actions")>>

(***************************************************************************)
(* C14: a handler leaves the index as it found it: the step that handles   *)
(* an event changes no document, its reads are point lookups and existence *)
(* checks, and all it asks for goes to the work queue; the index changes   *)
(* only in a step that takes a task off the queue and applies it.          *)
(***************************************************************************)
C14_HandlersOnlyEnqueue ==
    [][/\ (ev = NoEvent /\ ev' # NoEvent)
          => /\ index' = index
             /\ index' = ev'.idx
             /\ queue' = queue \o enq'
             /\ \A i \in 1..Len(lookups') : lookups'[i].op \in {"get", "exists"}
       /\ index' # index
          => /\ ev' = ev
             /\ \E i \in 1..Len(queue) :
                    /\ queue[i].name \in {"save_document_in_es",
                                          "remove_doc_from_es_index"}
                    /\ index' = ApplyTask(queue[i], index)
                    /\ queue' = Without(queue, i) \o NextStep(queue[i])]_vars

\* A handler that read the index, found nothing and enqueued a creation:
\* the document is on the queue, not in the index.
C14_Witness ==
    /\ ev.handler \in {"save", "m2m"}
    /\ Gets # <<>>
    /\ Len(enq) >= 1
    /\ IsCreation(enq[1])
    /\ queue = enq
    /\ index = ev.idx
    /\ Doc(enq[1].doc, DocId(enq[1].doc, enq[1].pk)) \notin index

(***************************************************************************)
(* C15 as claimed: once every handler has returned and every enqueued task *)
(* has run, each field of each indexed document equals the value projected *)
(* from the store as it is then.                                           *)
(***************************************************************************)
C15_Original ==
    (ev = NoEvent /\ queue = <<>>)
    => \A m \in DOMAIN content, f \in DocFields :
        Doc(processor.es_document, DocId(processor.es_document, m)) \in index
        => content[m][f] = Projection(m, f)

\* The executed updates of document m that carry field f.
Writers(m, f) ==
    {i \in 1..Len(executed) :
        /\ executed[i].task.name = "update_document_in_es"
        /\ executed[i].task.id = DocId(processor.es_document, m)
        /\ HasKey(executed[i].task.fields, f)}

Latest(S) == CHOOSE i \in S : \A j \in S : j <= i

(***************************************************************************)
(* C16: every update task a save enqueues carries, for the document it     *)
(* addresses, the values the store held when the handler ran; two such     *)
(* tasks for one document may run in either order; and a field that the    *)
(* executed tasks wrote holds the value carried by the one that ran last,  *)
(* whichever was enqueued first.                                           *)
(***************************************************************************)
C16_LastExecutedWins ==
    /\ ev.handler = "save"
       => \A i \in 1..Len(enq) :
            enq[i].name = "update_document_in_es"
            => /\ enq[i].doc = processor.es_document
               /\ enq[i].id[2] \in DOMAIN content
               /\ \A k \in 1..Len(enq[i].fields) :
                    enq[i].fields[k][2]
                        = Projection(enq[i].id[2], enq[i].fields[k][1])
    /\ \A m \in DOMAIN content, f \in DocFields :
        Writers(m, f) # {}
        => content[m][f]
            = Get(executed[Latest(Writers(m, f))].task.fields, f)

\* Two updates of one document ran in the reverse of the order in which
\* they were enqueued: the document holds what the first-enqueued carried.
C16_Witness ==
    /\ Len(executed) = 2
    /\ queue = <<>>
    /\ executed[1].at = 2
    /\ executed[2].at = 1
    /\ executed[1].task.name = "update_document_in_es"
    /\ executed[2].task.name = "update_document_in_es"
    /\ executed[1].task.id = executed[2].task.id
    /\ executed[1].task.fields # executed[2].task.fields
    /\ \A k \in 1..Len(executed[2].task.fields) :
        content[executed[2].task.id[2]][executed[2].task.fields[k][1]]
            = executed[2].task.fields[k][2]

(***************************************************************************)
(* C17: handle_m2m reads the index and enqueues tasks only for the actions *)
(* post_add and post_remove; for pre_add, pre_remove, pre_clear and        *)
(* post_clear it performs no lookup and enqueues nothing.                  *)
(***************************************************************************)
C17_OnlyAddAndRemove ==
    ev.handler = "m2m"
    => /\ ev.action \notin {"post_add", "post_remove"}
          => (enq = <<>> /\ lookups = <<>> /\ raised = "")
       /\ enq # <<>> => ev.action \in {"post_add", "post_remove"}

\* The relation of an indexed Audio is cleared: nothing is read or enqueued.
C17_Witness ==
    /\ ev.handler = "m2m"
    /\ ev.action = "post_clear"
    /\ ev.sender = "Audio_panel"
    /\ Doc("AudioDocument", <<"", ev.instance.pk>>) \in ev.idx
    /\ enq = <<>>
    /\ lookups = <<>>

(***************************************************************************)
(* C18: a non-created save that changes a tracked field of a referenced    *)
(* lookup entity (ABARating, PoliticalAffiliation or School for            *)
(* PositionDocument, Person for ESRECAPDocument) enqueues one              *)
(* update_child_documents_by_query task for each parent currently related  *)
(* to the entity through the query path, none when there is no such        *)
(* parent, and no single-document update task.                             *)
(***************************************************************************)
IsLookupEntitySave ==
    /\ ev.handler = "save"
    /\ ~ev.created
    /\ \/ ev.instance.model \in {"ABARating", "PoliticalAffiliation", "School"}
          /\ processor.es_document = "PositionDocument"
       \/ ev.instance.model = "Person"
          /\ processor.es_document = "ESRECAPDocument"
    /\ HasTracker
    /\ ChangedSet # {}

\* The model of the parents the lookup entity is shared by.
SharingModel ==
    IF processor.es_document = "PositionDocument" THEN "Person" ELSE "Docket"

\* The parents related to the saved entity, query path by query path.
RelatedParents ==
    {<<i, parent>> \in (1..Len(SaveMapping)) \X Pks :
        \E j \in 1..Len(Filter(SharingModel, SaveMapping[i][1], ev.instance)) :
            Filter(SharingModel, SaveMapping[i][1], ev.instance)[j].pk = parent}

C18_OneBulkPerRelatedParent ==
    IsLookupEntitySave
    => /\ Count(enq, "update_child_documents_by_query")
            = Cardinality(RelatedParents)
       /\ Len(enq) = Cardinality(RelatedParents)
       /\ \A i \in 1..Len(enq) :
            /\ enq[i].doc = processor.es_document
            /\ enq[i].model = SharingModel
            /\ \E r \in RelatedParents : r[2] = enq[i].pk
       /\ \A r \in RelatedParents :
            \E i \in 1..Len(enq) : enq[i].pk = r[2]
       /\ Count(enq, "update_document_in_es") = 0
       /\ lookups = <<>>
       /\ raised = ""

\* A School two Persons are related to is saved with a changed field: two
\* bulk tasks, one for each Person.
C18_Witness ==
    /\ IsLookupEntitySave
    /\ ev.instance.model = "School"
    /\ Cardinality(RelatedParents) = 2
    /\ Len(enq) = 2
    /\ enq[1].pk # enq[2].pk

(***************************************************************************)
(* C19: when handle_reverse_actions_delete follows the lookup path from    *)
(* the deleted record and the object it leads to is already gone           *)
(* (ObjectDoesNotExist), the handler enqueues no task for that cascade and *)
(* returns normally: no exception reaches the caller of the deletion.      *)
(***************************************************************************)
\* The deleted record's path leads to an object that was already removed.
TraversalFails ==
    /\ ev.handler = "reverse_delete"
    /\ Get(processor.reverse_delete, ev.sender) # <<>>
    /\ RelatedModel(ev.instance.model,
                    LastSegment(Get(processor.reverse_delete, ev.sender)[1][1])) # ""
    /\ ev.instance.stale

C19_GoneParentAbortsSilently ==
    TraversalFails => enq = <<>> /\ lookups = <<>> /\ raised = ""

\* An Education whose Person is gone is deleted, while the Person's
\* document is still in the index.
C19_Witness ==
    /\ TraversalFails
    /\ ev.instance.model = "Education"
    /\ \E d \in ev.idx : d.doc = "PersonDocument"
    /\ enq = <<>>
    /\ raised = ""

(***************************************************************************)
(* C20 as claimed: the bulk task enqueued for a parent-field change is     *)
(* scoped to the changed parent and its field list names exactly the       *)
(* child-document fields the changed source fields map to.                 *)
(***************************************************************************)
BulkTasks ==
    SelectSeq(enq, LAMBDA t : t.name = "update_child_documents_by_query")

\* The entries of the save mapping the parent case takes, in order.
ParentEntrySeq ==
    SelectSeq(SaveMapping,
              LAMBDA entry : ev.instance.model = "Docket"
                             \/ entry[1] = <<"person">>)

FieldNames(task) == {task.fields[i][1] : i \in 1..Len(task.fields)}

\* The keys of fields_map that name a changed field or its display method.
ChangedKeys(fields_map) ==
    {fields_map[i][1] : i \in {j \in 1..Len(fields_map) :
        \E f \in ChangedSet : fields_map[j][1] \in {f, DisplayName(f)}}}

\* The child-document fields those keys are mapped to.
MappedDocFields(fields_map) ==
    UNION {{Get(fields_map, k)[i] : i \in 1..Len(Get(fields_map, k))} :
            k \in ChangedKeys(fields_map)}

C20_Original ==
    IsParentSave
    => \A k \in DOMAIN BulkTasks \cap DOMAIN ParentEntrySeq :
        /\ BulkTasks[k].model = ev.instance.model
        /\ BulkTasks[k].pk = ev.instance.pk
        /\ FieldNames(BulkTasks[k]) = MappedDocFields(ParentEntrySeq[k][2])

(***************************************************************************)
(* C20 amended: the bulk task enqueued for a parent-field change is scoped *)
(* to the changed parent and its field list names exactly the changed      *)
(* source fields that are keys of the mapping entry's fields_map (the      *)
(* get_<field>_display keys of changed fields included), each once; the    *)
(* entry's fields_map, which maps them to the child-document fields, is    *)
(* passed with it.  The list contains no field whose source did not        *)
(* change.                                                                 *)
(***************************************************************************)
C20_SourceFieldsWithMap ==
    IsParentSave
    => /\ Len(BulkTasks) = Len(ParentEntrySeq)
       /\ \A k \in DOMAIN BulkTasks \cap DOMAIN ParentEntrySeq :
            /\ BulkTasks[k].model = ev.instance.model
            /\ BulkTasks[k].pk = ev.instance.pk
            /\ BulkTasks[k].fmap = ParentEntrySeq[k][2]
            /\ FieldNames(BulkTasks[k]) = ChangedKeys(ParentEntrySeq[k][2])
            /\ Len(BulkTasks[k].fields)
                    = Cardinality(ChangedKeys(ParentEntrySeq[k][2]))

\* Only the name of a Person changed: the one bulk task lists "name" and
\* carries the map that leads from "name" to the document field "judge",
\* and leaves out the unchanged status.
C20_Witness ==
    /\ IsParentSave
    /\ ev.instance.model = "Person"
    /\ ChangedSet = {"name"}
    /\ Len(BulkTasks) = 1
    /\ FieldNames(BulkTasks[1]) = {"name"}
    /\ Get(BulkTasks[1].fmap, "name") = <<"judge">>
    /\ HasKey(BulkTasks[1].fmap, "get_status_display")

(***************************************************************************)
(* C21 as claimed: a deletion event of a model of the delete section       *)
(* enqueues exactly one removal task for the entity's document, and once   *)
(* that task and every task enqueued before it have run, in any order, the *)
(* index holds no document for the deleted entity.                         *)
(***************************************************************************)
C21_Original ==
    /\ ev.handler = "delete"
       => enq = <<remove_doc_from_es_index(processor.es_document,
                                           ev.instance.pk)>>
    /\ queue = <<>>
       => \A pk \in gone :
            Doc(processor.es_document, DocId(processor.es_document, pk))
                \notin index

(***************************************************************************)
(* C22 as claimed: every handler uses the one identifier of the entity's   *)
(* document: the id handle_delete passes to the removal task and the id    *)
(* the Audio gate probes equal the id get_or_create_doc looks up for the   *)
(* same entity and document class.                                         *)
(***************************************************************************)
\* A bare primary key used as a document identifier.
RawId(pk) == <<"", pk>>

ChildDocumentClasses == {"PositionDocument", "ESRECAPDocument"}

\* The identifier get_or_create_doc looks up for the instance of the event.
LookedUpId ==
    get_or_create_doc(processor.es_document, ev.instance, TRUE).id

Probes == SelectSeq(lookups, LAMBDA l : l.op = "exists")

C22_Original ==
    /\ ev.handler = "delete" /\ enq # <<>>
       => RawId(enq[1].pk) = LookedUpId
    /\ ev.handler = "save"
       => \A i \in 1..Len(Probes) : Probes[i].id = LookedUpId

(***************************************************************************)
(* C22 amended: the identifier get_or_create_doc looks up is one function  *)
(* of the document class and the primary key, namespaced for               *)
(* PositionDocument and ESRECAPDocument and the bare primary key for every *)
(* other class; the Audio gate probes that same identifier; handle_delete  *)
(* passes the removal task the document class and the bare primary key of  *)
(* the instance, which is the identifier get_or_create_doc looks up        *)
(* exactly when the document class is not one of the two child classes.    *)
(***************************************************************************)
C22_OneIdPerDocument ==
    /\ \A i \in 1..Len(Gets) :
        /\ Gets[i].id[1] =
            (CASE Gets[i].doc = "PositionDocument" -> "POSITION"
               [] Gets[i].doc = "ESRECAPDocument" -> "RECAP"
               [] OTHER -> "")
        /\ Gets[i].id[2] \in Pks
    /\ ev.handler = "save"
       => \A i \in 1..Len(Probes) :
            /\ Probes[i].doc = processor.es_document
            /\ Probes[i].id = LookedUpId
    /\ ev.handler = "delete"
       => /\ Len(enq) = 1
          /\ enq[1].doc = processor.es_document
          /\ enq[1].pk = ev.instance.pk
          /\ RawId(enq[1].pk) = LookedUpId
                <=> processor.es_document \notin ChildDocumentClasses

\* A Position whose document is in the index is deleted: the removal task
\* is given the bare primary key, not the namespaced identifier the
\* document is stored under.
C22_Witness ==
    /\ ev.handler = "delete"
    /\ processor.es_document = "PositionDocument"
    /\ Doc("PositionDocument", LookedUpId) \in ev.idx
    /\ enq[1].pk = ev.instance.pk
    /\ RawId(enq[1].pk) # LookedUpId

(***************************************************************************)
(* C23 as claimed: document_fields_to_update computes each target field by *)
(* the precedence prepare_<doc_field> of the document, then the display    *)
(* accessor of a "get_<X>_display" source, then the plain attribute; the   *)
(* result maps exactly the target fields the fields_map lists for the      *)
(* requested source fields.                                                *)
(***************************************************************************)
IsFieldsCall == call.fn = "document_fields_to_update"

\* The (source field, target field) pairs the call asks for.
Requested ==
    UNION {{<<call.field_list[i],
              Get(call.fields_map, call.field_list[i])[j]>> :
                j \in 1..Len(Get(call.fields_map, call.field_list[i]))} :
                i \in 1..Len(call.field_list)}

Targets == {p[2] : p \in Requested}

DisplayOf(f) ==
    DisplayValue(DisplayedField(f), db.vals[call.instance][DisplayedField(f)])

\* The value of target d for source f when the prepare method comes first.
PrepareFirst(f, d) ==
    IF d \in PrepareMethods(call.es_document)
    THEN PreparedValue(d, call.main_object)
    ELSE IF IsDisplay(f) THEN DisplayOf(f)
    ELSE AttrValue(f, db.vals[call.instance][f])

\* The value of target d for source f when the display accessor comes first.
DisplayFirst(f, d) ==
    IF IsDisplay(f) THEN DisplayOf(f)
    ELSE IF d \in PrepareMethods(call.es_document)
    THEN PreparedValue(d, call.main_object)
    ELSE AttrValue(f, db.vals[call.instance][f])

C23_Original ==
    IsFieldsCall
    => /\ KeySet(result) = Targets
       /\ \A d \in KeySet(result) :
            \E p \in Requested : p[2] = d /\ Get(result, d) = PrepareFirst(p[1], d)

(***************************************************************************)
(* C23 amended: document_fields_to_update computes each target field by    *)
(* the precedence: the display accessor of the instance when the source is *)
(* a "get_<X>_display" variant; otherwise prepare_<doc_field> of the       *)
(* document, invoked with the main object, when the document has one;      *)
(* otherwise the plain attribute of the instance.  The result maps exactly *)
(* the target fields the fields_map lists for the requested source fields. *)
(***************************************************************************)
C23_DisplayThenPrepareThenAttribute ==
    IsFieldsCall
    => /\ KeySet(result) = Targets
       /\ Len(result) = Cardinality(Targets)
       /\ \A d \in KeySet(result) :
            \E p \in Requested : p[2] = d /\ Get(result, d) = DisplayFirst(p[1], d)

\* A display source mapped to a document field that has a prepare method:
\* the value is the display accessor's.
C23_Witness ==
    /\ IsFieldsCall
    /\ call.es_document = "AudioDocument"
    /\ call.field_list = <<"get_status_display">>
    /\ "panel_ids" \in Targets
    /\ "panel_ids" \in PrepareMethods(call.es_document)
    /\ Get(result, "panel_ids").kind = "display"
    /\ Get(result, "source").kind = "display"

(***************************************************************************)
(* C24: the fields of the field list are applied in order and the last     *)
(* writer wins: when two source fields of the list map to the same target  *)
(* document field, the update holds the value produced for the source that *)
(* comes later in the list, and holds that target exactly once.            *)
(***************************************************************************)
\* The positions of the field list whose source maps to target d.
WritersOf(d) ==
    {i \in 1..Len(call.field_list) :
        \E j \in 1..Len(Get(call.fields_map, call.field_list[i])) :
            Get(call.fields_map, call.field_list[i])[j] = d}

LastWriterOf(d) == CHOOSE i \in WritersOf(d) : \A j \in WritersOf(d) : j <= i

C24_LastWriterWins ==
    IsFieldsCall
    => \A d \in Targets :
        /\ Get(result, d) = DisplayFirst(call.field_list[LastWriterOf(d)], d)
        /\ Cardinality({i \in 1..Len(result) : result[i][1] = d}) = 1

\* name and status both map to caseName; status comes later and its value
\* is the one the update holds.
C24_Witness ==
    /\ IsFieldsCall
    /\ call.field_list = <<"name", "status">>
    /\ WritersOf("caseName") = {1, 2}
    /\ Get(result, "caseName")
            = AttrValue("status", db.vals[call.instance]["status"])
    /\ Get(result, "caseName")
            # AttrValue("name", db.vals[call.instance]["name"])

(***************************************************************************)
(* C25: get_fields_to_update returns, in the order of the changed-field    *)
(* list, exactly the keys of the fields_map that are a changed field or    *)
(* the "get_<f>_display" name of a changed field f; the empty list when    *)
(* there is none; never a name that is not a key of the fields_map.        *)
(***************************************************************************)
IsGetFieldsCall == call.fn = "get_fields_to_update"

\* The changed-field list of the call.
ChangedList == call.field_list

\* The position in the changed-field list of the field a returned name
\* stands for.
SourcePosition(k) ==
    CHOOSE i \in 1..Len(ChangedList) :
        k \in {ChangedList[i], DisplayName(ChangedList[i])}

C25_ChangedKeysInOrder ==
    IsGetFieldsCall
    => /\ {result[i] : i \in 1..Len(result)}
            = {k \in KeySet(call.fields_map) :
                \E i \in 1..Len(ChangedList) :
                    k \in {ChangedList[i], DisplayName(ChangedList[i])}}
       /\ Distinct(result)
       /\ \A a, b \in 1..Len(result) :
            a < b => SourcePosition(result[a]) <= SourcePosition(result[b])

\* status and name changed, in that order; the map has the keys status and
\* get_name_display only: both are returned, in the order of the changes.
C25_Witness ==
    /\ IsGetFieldsCall
    /\ ChangedList = <<"status", "name">>
    /\ KeySet(call.fields_map) = {"status", "get_name_display"}
    /\ result = <<"status", "get_name_display">>

(***************************************************************************)
(* C26: updated_fields returns exactly the tracked fields whose current    *)
(* value differs from the tracker's snapshot, in tracker order; for a      *)
(* ForeignKey field not named with an "_id" suffix that holds a related    *)
(* object the value compared is the primary key of that object; a tracked  *)
(* field whose value equals its snapshot is never returned.                *)
(***************************************************************************)
IsUpdatedFieldsCall == call.fn = "updated_fields"

TrackerConfigured ==
    /\ TrackerAttribute(call.es_document) # ""
    /\ TrackerAttribute(call.es_document) \in call.trackers

\* The value of a tracked field in the store, a related row by its
\* primary key (0 when there is none).
ResolvedNow(f) ==
    IF f \in SrcFields THEN db.vals[call.instance][f]
    ELSE IF f \in ForeignKeyFields THEN db.fk[2][call.instance]
    ELSE db.vals[call.instance]["status"]

TrackerPosition(f) == CHOOSE i \in 1..Len(TrackedFields) : TrackedFields[i] = f

C26_ChangedTrackedFields ==
    IsUpdatedFieldsCall
    => /\ \A i \in 1..Len(result) :
            /\ result[i] \in DOMAIN call.snapshot
            /\ ResolvedNow(result[i]) # call.snapshot[result[i]]
       /\ TrackerConfigured
          => /\ {result[i] : i \in 1..Len(result)}
                    = {f \in DOMAIN call.snapshot :
                        ResolvedNow(f) # call.snapshot[f]}
             /\ \A a, b \in 1..Len(result) :
                    a < b => TrackerPosition(result[a])
                                < TrackerPosition(result[b])

\* The tracked ForeignKey holds a related object whose primary key is the
\* snapshot's value: it is not reported, while a changed plain field is.
C26_Witness ==
    /\ IsUpdatedFieldsCall
    /\ TrackerConfigured
    /\ "docket" \in DOMAIN call.snapshot
    /\ db.fk[2][call.instance] # 0
    /\ call.snapshot["docket"] = db.fk[2][call.instance]
    /\ result = <<"name">>

(***************************************************************************)
(* C27 as claimed: updated_fields returns the empty list when the instance *)
(* carries no tracker for the document class and when the instance was     *)
(* freshly created; a save of such an instance enqueues no field-level     *)
(* update task.                                                            *)
(***************************************************************************)
\* The tasks and reads of the field-level update path.
NoFieldLevelUpdate ==
    /\ Gets = <<>>
    /\ \A i \in 1..Len(enq) :
        /\ ~IsCreation(enq[i])
        /\ enq[i].name \notin {"update_document_in_es",
                               "update_child_documents_by_query"}

C27_Original ==
    (ev.handler = "save" /\ (~HasTracker \/ ev.created))
    => /\ updated_fields(ev.instance, processor.es_document) = <<>>
       /\ NoFieldLevelUpdate

(***************************************************************************)
(* C27 amended: updated_fields returns the empty list when the instance    *)
(* carries no tracker for the document class; for a freshly created        *)
(* instance update_es_documents returns before it calls updated_fields.    *)
(* A save of an instance without the tracker, or of a freshly created      *)
(* one, enqueues no field-level update task.                               *)
(***************************************************************************)
C27_NoTrackerOrCreatedNoUpdate ==
    ev.handler = "save"
    => /\ ~HasTracker
          => updated_fields(ev.instance, processor.es_document) = <<>>
       /\ (~HasTracker \/ ev.created) => NoFieldLevelUpdate
       /\ (~HasTracker \/ ev.created) /\ SaveMapping # <<>> => enq = <<>>

\* A Docket without the tracker, related to Audios, is saved, not created:
\* nothing is read or enqueued.
C27_Witness ==
    /\ ev.handler = "save"
    /\ ~ev.created
    /\ ~HasTracker
    /\ SaveMapping # <<>>
    /\ Filter(processor.main_model, SaveMapping[1][1], ev.instance) # <<>>
    /\ updated_fields(ev.instance, processor.es_document) = <<>>
    /\ enq = <<>>
    /\ lookups = <<>>

(***************************************************************************)
(* C28: a save of a reverse related record whose resolved parent has its   *)
(* document in the index enqueues exactly one update_document_in_es task   *)
(* for that document; its fields are exactly the affected fields the       *)
(* mapping entry declares (those of the record's type when the type is a   *)
(* key of the fields_map, those of "all" otherwise), each computed from    *)
(* the parent by the document's prepare method when there is one.          *)
(***************************************************************************)
ReverseMapping == Get(processor.reverse, ev.sender)

\* The parents the entries of the reverse mapping resolve whose document
\* the index holds: (entry, primary key).
IndexedReverseParents ==
    {<<i, pk>> \in (1..Len(ReverseMapping)) \X Pks :
        LET query == ReverseMapping[i][1]
            parents == Filter(processor.main_model, query,
                              RelatedOrSelf(ev.instance, LastSegment(query)))
        IN /\ \E j \in 1..Len(parents) : parents[j].pk = pk
           /\ Doc(processor.es_document, DocId(processor.es_document, pk))
                \in ev.idx}

\* The affected fields the entry declares for the record.
DeclaredFields(i) ==
    LET fields_map == ReverseMapping[i][2]
    IN IF ev.instance.type # "" /\ ev.instance.type \in KeySet(fields_map)
       THEN Get(fields_map, ev.instance.type)
       ELSE Get(fields_map, "all")

ParentUpdates == Named(enq, "update_document_in_es")

C28_OneUpdateOfDeclaredFields ==
    (ev.handler = "reverse" /\ IndexedReverseParents # {})
    => /\ raised = ""
       /\ Len(ParentUpdates) = Cardinality(IndexedReverseParents)
       /\ \A p \in IndexedReverseParents :
            \E k \in 1..Len(ParentUpdates) :
                LET task == ParentUpdates[k]
                    declared == DeclaredFields(p[1])
                IN /\ task.doc = processor.es_document
                   /\ task.id = DocId(processor.es_document, p[2])
                   /\ KeySet(task.fields)
                        = {declared[j] : j \in 1..Len(declared)}
                   /\ Len(task.fields) = Cardinality(KeySet(task.fields))
                   /\ \A f \in KeySet(task.fields) :
                        f \in PrepareMethods(processor.es_document)
                        => Get(task.fields, f) = PreparedValue(f, p[2])

\* A BankruptcyInformation of type t1 whose Docket is indexed is saved: one
\* update of the Docket's document with the fields declared for t1.
C28_Witness ==
    /\ ev.handler = "reverse"
    /\ ev.sender = "BankruptcyInformation"
    /\ ev.instance.type = "t1"
    /\ Cardinality(IndexedReverseParents) = 1
    /\ Len(ParentUpdates) = 1
    /\ KeySet(ParentUpdates[1].fields) = {"chapter", "status"}
    /\ Get(ParentUpdates[1].fields, "chapter").kind = "prepare"

(***************************************************************************)
(* C29: for the reverse related types with a second-level cascade          *)
(* (ABARating, PoliticalAffiliation, Education under PersonDocument;       *)
(* BankruptcyInformation under DocketDocument) one reverse save enqueues,  *)
(* besides the update of the parent's document, exactly one bulk           *)
(* update_child_documents_by_query task for each affected parent, for the  *)
(* grandchild document class (PositionDocument, ESRECAPDocument) and with  *)
(* the same affected fields; for every other (record type, document        *)
(* class) pair the reverse flow enqueues no bulk task.                     *)
(***************************************************************************)
IsCascadePair(model, es_document) ==
    \/ /\ model \in {"ABARating", "PoliticalAffiliation", "Education"}
       /\ es_document = "PersonDocument"
    \/ /\ model = "BankruptcyInformation"
       /\ es_document = "DocketDocument"

\* The parents the cascade of a reverse save reaches: (entry, primary key).
CascadeParents ==
    {<<i, pk>> \in (1..Len(ReverseMapping)) \X Pks :
        IF processor.es_document = "PersonDocument"
        THEN LET persons == Filter("Person", ReverseMapping[i][1], ev.instance)
             IN \E j \in 1..Len(persons) : persons[j].pk = pk
        ELSE pk = db.fk[1][ev.instance.pk]}

RecordModels ==
    {"ABARating", "PoliticalAffiliation", "Education", "BankruptcyInformation",
     "School", "Person", "Docket", "Audio"}

AllDocumentClasses ==
    {"AudioDocument", "PersonDocument", "PositionDocument", "DocketDocument",
     "ESRECAPDocument", "ParentheticalGroupDocument"}

C29_OneBulkPerCascadeParent ==
    /\ (ev.handler = "reverse"
        /\ IsCascadePair(ev.instance.model, processor.es_document))
       => /\ Len(BulkTasks) = Cardinality(CascadeParents)
          /\ \A p \in CascadeParents :
                \E k \in 1..Len(BulkTasks) :
                    /\ BulkTasks[k].doc = ChildDocument(processor.es_document)
                    /\ BulkTasks[k].model = processor.main_model
                    /\ BulkTasks[k].pk = p[2]
                    /\ BulkTasks[k].fields = ListOfFields(DeclaredFields(p[1]))
          /\ Len(ParentUpdates) = Cardinality(IndexedReverseParents)
          /\ Len(enq) = Len(ParentUpdates) + Len(BulkTasks)
    /\ (ev.handler = "reverse"
        /\ ~IsCascadePair(ev.instance.model, processor.es_document))
       => BulkTasks = <<>>
    /\ \A model \in RecordModels, es_document \in AllDocumentClasses,
          pk \in Pks :
            ~IsCascadePair(model, es_document)
            => Count(update_reverse_related_documents(
                        processor.main_model, es_document,
                        PlainInstance(model, pk), <<"docket">>,
                        <<"text">>).tasks,
                     "update_child_documents_by_query") = 0

\* An Education whose Person is indexed is saved: the Person's document is
\* updated and one bulk task goes to the Person's Position documents with
\* the same fields.
C29_Witness ==
    /\ ev.handler = "reverse"
    /\ ev.sender = "Education"
    /\ Len(ParentUpdates) = 1
    /\ Len(BulkTasks) = 1
    /\ BulkTasks[1].doc = "PositionDocument"
    /\ BulkTasks[1].model = "Person"
    /\ BulkTasks[1].fields = ListOfFields(<<"school">>)
    /\ KeySet(ParentUpdates[1].fields) = {"school"}

(***************************************************************************)
(* C30: one run of handle_save takes one of two exclusive paths: with a    *)
(* non-empty save mapping for the sender it enqueues only field-level      *)
(* tasks (creation by get_or_create_doc, single-document updates, bulk     *)
(* updates), never the three-step chain; with an empty mapping it enqueues *)
(* only the three-step chain, never a field-level task.                    *)
(***************************************************************************)
IsFieldLevel(t) ==
    \/ IsCreation(t)
    \/ t.name = "update_document_in_es" /\ t.rest = <<>>
    \/ t.name = "update_child_documents_by_query" /\ t.rest = <<>>

C30_ChainOrFieldLevel ==
    ev.handler = "save"
    => /\ SaveMapping # <<>>
          => \A i \in 1..Len(enq) : IsFieldLevel(enq[i]) /\ ~IsChainHead(enq[i])
       /\ SaveMapping = <<>>
          => /\ \A i \in 1..Len(enq) :
                    IsChainHead(enq[i]) /\ ~IsFieldLevel(enq[i])
             /\ Len(enq) <= 1
             /\ Gets = <<>>

\* A Person with a changed name is saved under the Position processor: a
\* bulk task and a task of the supervisor entry, and no chain.
C30_Witness ==
    /\ ev.handler = "save"
    /\ SaveMapping # <<>>
    /\ Len(BulkTasks) >= 1
    /\ Len(enq) > Len(BulkTasks)
    /\ \A i \in 1..Len(enq) : ~IsChainHead(enq[i])

(***************************************************************************)
(* C31 as claimed: every update task a handler enqueues                    *)
(* (update_document_in_es and update_child_documents_by_query) carries at  *)
(* least one field to update: none is enqueued for a mapping entry none of *)
(* whose keys is among the changed fields, nor for a reverse-delete whose  *)
(* affected fields have no prepare method.                                 *)
(***************************************************************************)
UpdateTasks ==
    SelectSeq(enq, LAMBDA t :
        t.name \in {"update_document_in_es",
                    "update_child_documents_by_query"})

C31_Original ==
    \A i \in 1..Len(UpdateTasks) : UpdateTasks[i].fields # <<>>

(***************************************************************************)
(* C32 as claimed: one change event enqueues at most one task per target   *)
(* document and operation kind: over all entries processed for the event,  *)
(* no document receives two creation tasks and no document (or set of      *)
(* child documents of one parent) receives two update tasks that carry the *)
(* same field.                                                             *)
(***************************************************************************)
\* Two tasks address the same target.
SameTarget(t, u) ==
    /\ t.name = u.name
    /\ t.doc = u.doc
    /\ t.model = u.model
    /\ t.pk = u.pk
    /\ t.id = u.id

C32_Original ==
    \A i, j \in 1..Len(enq) :
        (i < j /\ SameTarget(enq[i], enq[j]))
        => /\ enq[i].name # "save_document_in_es"
           /\ enq[i].name \in {"update_document_in_es",
                               "update_child_documents_by_query"}
              => FieldNames(enq[i]) \cap FieldNames(enq[j]) = {}

(***************************************************************************)
(* C33 as claimed: in handle_reverse_actions_delete every entry of the     *)
(* sender's reverse-delete mapping is resolved from the record delivered   *)
(* with the event: for the k-th entry both the affected fields (chosen by  *)
(* the record's type) and the traversal of the lookup path start from that *)
(* record, not from an object reached while an earlier entry was           *)
(* processed.                                                              *)
(***************************************************************************)
ReverseDeleteMapping == Get(processor.reverse_delete, ev.sender)

\* What an entry enqueues when it is resolved from the record.
EntryFromRecord(entry, record) ==
    delete_reverse_related_documents(
        processor.main_model, processor.es_document,
        RelatedOrSelf(record, LastSegment(entry[1])), entry[1],
        AffectedFields(entry[2], record))

C33_Original ==
    (/\ ev.handler = "reverse_delete"
     /\ ~ev.instance.stale
     /\ raised = ""
     /\ index = ev.idx)
    => enq = Sequentially(
                [k \in 1..Len(ReverseDeleteMapping) |->
                    EntryFromRecord(ReverseDeleteMapping[k],
                                    ev.instance)]).tasks

(***************************************************************************)
(* C34 as claimed: in the m2m flow each mapping entry is applied as a      *)
(* unit: the main entities resolved through an entry's lookup key (the     *)
(* instance itself when the key is the main model's name) are updated only *)
(* for the affected field of that entry's fields_map, never for the        *)
(* affected field of another entry.                                        *)
(***************************************************************************)
M2MMapping == Get(processor.m2m, ev.sender)

\* The main entities the entry resolves.
M2MEntryPks(entry) ==
    IF entry[1] = <<LowerName(processor.main_model)>>
    THEN {ev.instance.pk}
    ELSE LET main_objects ==
                Filter(processor.main_model, entry[1], ev.instance)
         IN {main_objects[j].pk : j \in 1..Len(main_objects)}

C34_Original ==
    (ev.handler = "m2m" /\ ev.action \in {"post_add", "post_remove"})
    => \A i \in 1..Len(enq) :
        enq[i].name = "update_document_in_es"
        => \E k \in 1..Len(M2MMapping) :
            /\ FieldNames(enq[i]) = {Keys(M2MMapping[k][2])[1]}
            /\ \E pk \in M2MEntryPks(M2MMapping[k]) :
                    enq[i].id = DocId(processor.es_document, pk)

(***************************************************************************)
(* C35 as claimed: every constructed processor receives the events it      *)
(* registered for: when two processors with different document classes     *)
(* both list a sender in the same mapping section, a change event of that  *)
(* sender invokes the section's handler of both, also when the two share   *)
(* their main model.                                                       *)
(***************************************************************************)
Sections == {"save", "delete", "m2m", "reverse", "reverse-delete"}

SectionSenders(p, section) ==
    CASE section = "save" -> Senders(p.save)
      [] section = "delete" -> {p.delete[i] : i \in 1..Len(p.delete)}
      [] section = "m2m" -> Senders(p.m2m)
      [] section = "reverse" -> Senders(p.reverse)
      [] OTHER -> Senders(p.reverse_delete)

SectionSignal(section) ==
    CASE section \in {"save", "reverse"} -> "post_save"
      [] section = "m2m" -> "m2m_changed"
      [] OTHER -> "post_delete"

SectionMethod(section) ==
    CHOOSE method \in {"handle_save", "handle_delete", "handle_m2m",
                       "handle_reverse_actions",
                       "handle_reverse_actions_delete"} :
        Category(method) = section

\* The handlers a signal of the sender reaches.
Delivered(signal, sender) ==
    {receivers[i].handler : i \in {k \in 1..Len(receivers) :
        receivers[k].signal = signal /\ receivers[k].sender = sender}}

\* The signal reaches the section's handler of the processor p (setup()
\* may have run for p more than once).
Receives(p, section, sender) ==
    \E h \in Delivered(SectionSignal(section), sender) :
        /\ h.method = SectionMethod(section)
        /\ setups[h.owner] = p

C35_Original ==
    \A i, j \in 1..Len(setups), section \in Sections :
        setups[i].es_document # setups[j].es_document
        => \A sender \in SectionSenders(setups[i], section)
                         \cap SectionSenders(setups[j], section) :
            /\ Receives(setups[i], section, sender)
            /\ Receives(setups[j], section, sender)

(***************************************************************************)
(* C36: in the Person/PersonDocument and Docket/DocketDocument cases of a  *)
(* reverse-delete, the bulk update of the child documents is enqueued only *)
(* if the parent's document was in the index: when it was absent neither   *)
(* the parent update nor the bulk update of the children is enqueued, even *)
(* if child documents of that parent are indexed.                          *)
(***************************************************************************)
\* The event takes one of the two parent cases.
IsParentCase ==
    /\ ev.handler = "reverse_delete"
    /\ processor.es_document \in {"PersonDocument", "DocketDocument"}
    /\ ReverseDeleteParent.model = processor.main_model

ParentDocument ==
    Doc(processor.es_document,
        DocId(processor.es_document, ReverseDeleteParent.pk))

\* The indexed child documents of the parent.
IndexedChildren ==
    {m \in Pks :
        /\ db.fk[1][m] = ReverseDeleteParent.pk
        /\ Doc(ChildDocument(processor.es_document),
               DocId(ChildDocument(processor.es_document), m)) \in ev.idx}

C36_BulkOnlyWithParentDocument ==
    IsParentCase
    => /\ BulkTasks # <<>> => ParentDocument \in ev.idx
       /\ ParentDocument \notin ev.idx
          => /\ BulkTasks = <<>>
             /\ Count(enq, "update_document_in_es") = 0

\* An Education of a Person without a document and with indexed Positions
\* is deleted: the document was looked up and nothing was enqueued.
C36_Witness ==
    /\ IsParentCase
    /\ ~ev.instance.stale
    /\ ParentDocument \notin ev.idx
    /\ IndexedChildren # {}
    /\ lookups = <<Read("get", processor.es_document,
                        DocId(processor.es_document, ReverseDeleteParent.pk))>>
    /\ enq = <<>>

====
